---- MODULE Spec2Model ----
(***************************************************************************)
(* ThinkAloud AI interviewer.                                              *)
(*                                                                         *)
(* Server side: POST /api/interview/next of backend/server.js, with the    *)
(* three provider calls it makes (next question, per-question scoring,     *)
(* evaluation).  Client side: the AIInterviewer React component            *)
(* (handleAnalyze, handleSendAnswer, handleResumeSession, New Session).    *)
(*                                                                         *)
(* Texts are sequences of one-character strings, so that trim and          *)
(* truthiness are computed; the empty sequence stands for every falsy      *)
(* text (absent, null, "").  Numbers are integers; NoNum stands for a      *)
(* value whose typeof is not 'number', NaNVal for NaN.                     *)
(***************************************************************************)
EXTENDS Integers, Sequences, FiniteSets, TLC

\* ------------------------------------------------------------------------
\* Bounds of the model
\* ------------------------------------------------------------------------

\* longest transcript a request of the server specification carries
MaxMsgs == 10

\* answersAverage is drawn in steps of 1/AvgDen on the 0-10 scale
AvgDen == 3

\* longest transcript the client is driven to
MaxTranscript == 5

\* most handleSendAnswer invocations awaiting their fetch at one time
MaxInFlight == 2

\* segments a provider text is made of
MaxSegs == 5

\* characters in the answer box, audio frames of one recording
MaxAnswer == 3
MaxFrames == 1

\* startRecording calls waiting for the microphone, sockets the client no
\* longer refers to
MaxPending == 2
MaxStrays == 1

\* frames, and events, of one channel of the bridge
MaxRelay == 3

\* submissions created in one run of CodeQuestionBot
MaxSubmissions == 2

\* sessions in the session store
MaxStored == 2

\* ticks of one grade poll followed where a reset may come in between
MaxTicks == 2

\* ------------------------------------------------------------------------
\* Values
\* ------------------------------------------------------------------------

\* a value for which typeof v === 'number' is false (undefined, null, string)
NoNum == -999

\* NaN: typeof NaN === 'number', JSON.stringify(NaN) is null
NaNVal == -998

\* an element of perQuestionScores that is null (reading .score throws)
NullElem == -997

IsNumber(x) == x # NoNum

Truthy(s) == s # <<>>

\* Math.round(a / b) for b > 0: floor(a/b + 1/2)
MathRound(a, b) == (2 * a + b) \div (2 * b)

Thanks == <<"T", "h", "a", "n", "k", "s">>
Bye == <<"B", "y", "e">>
QText == <<"q">>
AText == <<"a">>
FbText == <<"f", "b">>
SumText == <<"s">>

Msg(r, c) == [role |-> r, content |-> c]

\* the alternating transcript assistant, user, assistant, ... of length n
Transcript(n) == [i \in 1..n |-> IF i % 2 = 1 THEN Msg("assistant", QText) ELSE Msg("user", AText)]

\* ------------------------------------------------------------------------
\* Provider replies
\* ------------------------------------------------------------------------

NqObj(d, cm, nq, os, fb) ==
  [kind |-> "obj", done |-> d, closingMessage |-> cm, nextQuestion |-> nq,
   overallScore |-> os, overallFeedback |-> fb]

NqFail(k) == [NqObj(FALSE, <<>>, <<>>, NoNum, <<>>) EXCEPT !.kind = k]

ScoreObj(arr, pqs, avg) ==
  [kind |-> "obj", isArray |-> arr, perQuestionScores |-> pqs, answersAverage |-> avg]

ScoreFail(k) == [kind |-> k, isArray |-> FALSE, perQuestionScores |-> <<>>, answersAverage |-> NoNum]

EvalObj(os, fb, cm) ==
  [kind |-> "obj", overallScore |-> os, overallFeedback |-> fb, closingMessage |-> cm]

EvalFail(k) == [kind |-> k, overallScore |-> NoNum, overallFeedback |-> <<>>, closingMessage |-> <<>>]

\* what the next-question call can produce: an exception of the provider,
\* a blank text, text that is not JSON, a JSON value that is not an object
\* (null, a number), or an object with any of the fields the handler reads
NqReplies ==
  {NqFail(k) : k \in {"throw", "empty", "badjson", "nonobj"}} \cup
  {NqObj(d, cm, nq, os, fb) :
     d \in BOOLEAN, cm \in {<<>>, Thanks}, nq \in {<<>>, QText},
     os \in {NoNum, 90}, fb \in {<<>>, FbText}}

ScoreArrays ==
  {<<>>, <<8, 6, 7, 9, 5>>, <<10>>, <<0, 7>>, <<NoNum, 9>>, <<4, NullElem>>, <<12>>}

AvgValues == {NoNum, 0, 7 * AvgDen, 10 * AvgDen, 10 * AvgDen - 1, 2 * AvgDen + 1, 15 * AvgDen}

ScoreReplies ==
  {ScoreFail(k) : k \in {"throw", "notext", "badjson", "nonobj"}} \cup
  {ScoreObj(FALSE, <<>>, avg) : avg \in {NoNum, 7 * AvgDen}} \cup
  {ScoreObj(TRUE, pqs, avg) : pqs \in ScoreArrays, avg \in AvgValues}

EvalReplies ==
  {EvalFail(k) : k \in {"throw", "notext", "badjson", "nonobj"}} \cup
  {EvalObj(os, fb, cm) : os \in {NoNum, 50}, fb \in {<<>>, FbText}, cm \in {<<>>, Bye}}

NqNotCalled == NqFail("notcalled")
ScoreNotCalled == ScoreFail("notcalled")
EvalNotCalled == EvalFail("notcalled")

\* ------------------------------------------------------------------------
\* Requests of POST /api/interview/next
\* ------------------------------------------------------------------------

Request(rs, isArr, msgs, fit) ==
  [resumeSummary |-> rs, messagesIsArray |-> isArr, messages |-> msgs, fitScore |-> fit]

FitScores == {NoNum, 0, 33, 80, 100}

Requests ==
  {Request(SumText, TRUE, Transcript(n), fit) : n \in {0, 1, 2, 3, MaxMsgs}, fit \in FitScores} \cup
  {Request(<<>>, TRUE, Transcript(1), NoNum), Request(SumText, FALSE, <<>>, NoNum)}

NoRequest == Request(<<>>, FALSE, <<>>, NoNum)

\* ------------------------------------------------------------------------
\* The handler's working object `out` and the response
\* ------------------------------------------------------------------------

OutOf(reply) ==
  [isObj |-> reply.kind = "obj", done |-> reply.done,
   closingMessage |-> reply.closingMessage, nextQuestion |-> reply.nextQuestion,
   overallScore |-> reply.overallScore, overallFeedback |-> reply.overallFeedback,
   hasPqs |-> FALSE, perQuestionScores |-> <<>>]

NoOut == OutOf(NqNotCalled)

\* res.status(s).json(body): NaN is serialised as null
Response(s, o) ==
  [status |-> s, isObj |-> o.isObj, done |-> o.done,
   closingMessage |-> o.closingMessage, nextQuestion |-> o.nextQuestion,
   overallScore |-> IF o.overallScore = NaNVal THEN NoNum ELSE o.overallScore,
   overallFeedback |-> o.overallFeedback, hasPqs |-> o.hasPqs]

ErrorResponse(s) == Response(s, NoOut)

NoResponse == Response(0, NoOut)

\* variant: the role filter is dropped
userMessagesUnfiltered(messages) == messages

\* messages.map(...).filter((m) => m.role === 'user')
userMessages(messages) == SelectSeq(messages, LAMBDA m : m.role = "user")

RECURSIVE SumScores(_)
\* reduce((s, p) => s + (typeof p.score === 'number' ? p.score : 0), 0)
SumScores(pqs) ==
  IF pqs = <<>> THEN 0
  ELSE (IF IsNumber(Head(pqs)) THEN Head(pqs) ELSE 0) + SumScores(Tail(pqs))

HasNullElem(pqs) == \E i \in 1..Len(pqs) : pqs[i] = NullElem

\* variant: the average is rounded on the 0-10 scale, not as a percentage
AnswersAvgPctNoScale(reply) ==
  IF reply.kind # "obj" \/ ~reply.isArray THEN NoNum
  ELSE IF IsNumber(reply.answersAverage) THEN MathRound(reply.answersAverage, AvgDen)
  ELSE IF HasNullElem(reply.perQuestionScores) THEN NoNum
  ELSE IF Len(reply.perQuestionScores) = 0 THEN NaNVal
  ELSE MathRound(SumScores(reply.perQuestionScores), Len(reply.perQuestionScores))

\* answersAvgPct = Math.round((avg10 / 10) * 100), NaN for avg10 = 0/0;
\* NoNum when the statement is not reached
AnswersAvgPct(reply) ==
  IF reply.kind # "obj" \/ ~reply.isArray THEN NoNum
  ELSE IF IsNumber(reply.answersAverage) THEN MathRound(10 * reply.answersAverage, AvgDen)
  ELSE IF HasNullElem(reply.perQuestionScores) THEN NoNum
  ELSE IF Len(reply.perQuestionScores) = 0 THEN NaNVal
  ELSE MathRound(10 * SumScores(reply.perQuestionScores), Len(reply.perQuestionScores))

\* variant: the two weights are exchanged
BlendSwapped(fit, pct) == IF pct = NaNVal THEN NaNVal ELSE MathRound(6 * fit + 4 * pct, 10)

\* Math.round(0.4 * fit + 0.6 * answersAvgPct)
Blend(fit, pct) == IF pct = NaNVal THEN NaNVal ELSE MathRound(4 * fit + 6 * pct, 10)

\* Step A, the body of `if (userMessages.length > 0)`: the effect of the
\* scoring reply on out
ScoringStep(o, reply, clientFitScore) ==
  IF reply.kind # "obj" \/ ~reply.isArray THEN o
  ELSE LET withPqs == [o EXCEPT !.hasPqs = TRUE, !.perQuestionScores = reply.perQuestionScores]
           pct == AnswersAvgPct(reply)
       IN  IF pct = NoNum THEN withPqs
           ELSE IF IsNumber(clientFitScore)
                THEN [withPqs EXCEPT !.overallScore = Blend(clientFitScore, pct)]
           ELSE IF ~IsNumber(o.overallScore)
                THEN [withPqs EXCEPT !.overallScore = pct]
           ELSE withPqs

\* Step B runs when this holds after Step A
NeedsEvaluation(o) ==
  o.isObj /\ o.done /\ (~IsNumber(o.overallScore) \/ ~Truthy(o.overallFeedback))

\* variant: closingMessage is assigned without the `|| out.closingMessage`
EvaluationStepNoFallback(o, reply) ==
  IF reply.kind # "obj" THEN o
  ELSE [o EXCEPT
          !.overallScore = IF IsNumber(reply.overallScore) THEN reply.overallScore ELSE @,
          !.overallFeedback = IF Truthy(reply.overallFeedback) THEN reply.overallFeedback ELSE @,
          !.closingMessage = reply.closingMessage]

\* Step B: merge of the evaluation reply into out
EvaluationStep(o, reply) ==
  IF reply.kind # "obj" THEN o
  ELSE [o EXCEPT
          !.overallScore = IF IsNumber(reply.overallScore) THEN reply.overallScore ELSE @,
          !.overallFeedback = IF Truthy(reply.overallFeedback) THEN reply.overallFeedback ELSE @,
          !.closingMessage = IF Truthy(reply.closingMessage) THEN reply.closingMessage ELSE @]

\* variant: the checks without the test for an empty messages array
EntryStatusNoLengthCheck(key, req) ==
  IF ~key THEN 503
  ELSE IF ~Truthy(req.resumeSummary) \/ ~req.messagesIsArray THEN 400
  ELSE 200

\* the checks made before any provider call: 503 without the credential,
\* 400 for a body without resumeSummary or without a non-empty messages array
EntryStatus(key, req) ==
  IF ~key THEN 503
  ELSE IF ~Truthy(req.resumeSummary) \/ ~req.messagesIsArray \/ Len(req.messages) = 0 THEN 400
  ELSE 200

\* getNextQuestion throws: no text, or text that JSON.parse rejects
NqThrows(reply) == reply.kind \in {"throw", "empty", "badjson"}

\* the scoring call is made: out.done and at least one user message
ScoringCalled(key, req, nq) ==
  /\ EntryStatus(key, req) = 200
  /\ ~NqThrows(nq)
  /\ OutOf(nq).isObj /\ OutOf(nq).done
  /\ Len(userMessages(req.messages)) > 0

\* `out` after the first try block
OutAfterScoring(key, req, nq, sc) ==
  IF ScoringCalled(key, req, nq) THEN ScoringStep(OutOf(nq), sc, req.fitScore) ELSE OutOf(nq)

\* the assignment out.overallScore = Math.round(0.4 * fit + 0.6 * answersAvgPct)
\* is made
BlendingTaken(key, req, nq, sc) ==
  /\ ScoringCalled(key, req, nq)
  /\ AnswersAvgPct(sc) # NoNum
  /\ IsNumber(req.fitScore)

\* the evaluation call is made
EvaluationCalled(key, req, nq, sc) ==
  /\ EntryStatus(key, req) = 200
  /\ ~NqThrows(nq)
  /\ NeedsEvaluation(OutAfterScoring(key, req, nq, sc))

\* the whole handler: the response, with `out` as Step A and Step B left it
\* and the local answersAvgPct
HandleInterviewNext(key, req, nq, sc, ev) ==
  LET afterA == OutAfterScoring(key, req, nq, sc)
      final == IF EvaluationCalled(key, req, nq, sc) THEN EvaluationStep(afterA, ev) ELSE afterA
  IN  IF EntryStatus(key, req) # 200
      THEN [res |-> ErrorResponse(EntryStatus(key, req)), out |-> NoOut, outA |-> NoOut,
            answersAvgPct |-> NoNum]
      ELSE IF NqThrows(nq)
      THEN [res |-> ErrorResponse(500), out |-> NoOut, outA |-> NoOut, answersAvgPct |-> NoNum]
      ELSE [res |-> Response(200, final), out |-> final, outA |-> afterA,
            answersAvgPct |-> IF ScoringCalled(key, req, nq) THEN AnswersAvgPct(sc) ELSE NoNum]

\* ------------------------------------------------------------------------
\* The AIInterviewer component: values
\* ------------------------------------------------------------------------

\* white space (\s of a regular expression, what trim removes)
IsSpace(c) == c \in {" ", "\n"}

RECURSIVE TrimStart(_)
TrimStart(s) == IF s # <<>> /\ IsSpace(Head(s)) THEN TrimStart(Tail(s)) ELSE s

RECURSIVE TrimEnd(_)
TrimEnd(s) == IF s # <<>> /\ IsSpace(s[Len(s)]) THEN TrimEnd(SubSeq(s, 1, Len(s) - 1)) ELSE s

\* String.prototype.trim
Trim(s) == TrimEnd(TrimStart(s))

\* what the user can have in the answer box
AnswerInputs == {<<>>, <<" ">>, <<"a", " ">>}

JobTitles == {<<" ", "J">>}

Context(rs) == [set |-> TRUE, resumeSummary |-> rs]

NoContext == [set |-> FALSE, resumeSummary |-> <<>>]

\* the body handleSendAnswer posts to /api/session/save, as the store returns it
SavedSession(msgs, score, fb, rs) ==
  [messages |-> msgs, score |-> score, feedback |-> fb, resume_summary |-> rs]

\* no save request issued
NoSaved == SavedSession(<<>>, NoNum, <<>>, <<>>)

\* lists /api/session/list can return: sessions saved by earlier page loads
SavedLists ==
  {<<SavedSession(Transcript(2), 50, FbText, SumText)>>}

\* the state a render closes over
Rendered(m, a, s) == [messages |-> m, answer |-> a, sending |-> s]

\* a handleSendAnswer invocation: its nextMessages, its sessionContext, the
\* await it is suspended at, and whether it belongs to the session on screen
Call(next, ctx, stage, cur, before) ==
  [nextMessages |-> next, resumeSummary |-> ctx.resumeSummary, stage |-> stage,
   current |-> cur, before |-> before, saved |-> NoSaved]

\* the last step of the component: its kind and, for a step of
\* handleSendAnswer after its fetch, the exchange it ran on (HTTP status, done
\* of the body, done of the next-question output, provider calls made for
\* scoring, nextQuestion in the body, resumeSummary of the request); for a
\* failure also the transcript before the step and before the answer was sent
EventOf(k, status, resDone, nqDone, scored, resNext, rs, prev, before, fit, blended) ==
  [kind |-> k, status |-> status, resDone |-> resDone, nqDone |-> nqDone,
   scored |-> scored, resNext |-> resNext, resumeSummary |-> rs, prev |-> prev,
   before |-> before, fitScore |-> fit, blended |-> blended]

Event(k) == EventOf(k, 0, FALSE, FALSE, FALSE, FALSE, <<>>, <<>>, <<>>, NoNum, FALSE)

Min(a, b) == IF a < b THEN a ELSE b

\* replies of the provider in the end-to-end specification
ClientNqReplies ==
  {NqFail("throw"), NqFail("nonobj")} \cup
  {NqObj(d, cm, nq, NoNum, <<>>) : d \in BOOLEAN, cm \in {<<>>, Thanks}, nq \in {<<>>, QText}}

ClientScoreReplies == {ScoreFail("throw"), ScoreObj(TRUE, <<7>>, NoNum)}

ClientEvalReplies == {EvalFail("throw"), EvalObj(50, FbText, <<>>)}

\* a transcript update that puts the new message first
PrependMessage(prev, m) == <<m>> \o prev

\* setMessages((prev) => [...prev, m])
AppendMessage(prev, m) == Append(prev, m)

RemoveAt(q, i) == SubSeq(q, 1, i - 1) \o SubSeq(q, i + 1, Len(q))

\* calls of the session that was on screen are no longer of the current one
Detach(q) == [i \in 1..Len(q) |-> [q[i] EXCEPT !.current = FALSE]]

\* ------------------------------------------------------------------------
\* Model Gateway: from the provider text to the JSON string that is parsed
\* ------------------------------------------------------------------------

\* the backquote character, written as #
Tick == "#"

Fence == <<Tick, Tick, Tick>>

JsonFence == Fence \o <<"j", "s", "o", "n">>

\* pieces of provider text: fence markers, white space, a JSON document and
\* text that is not JSON
Segments == {Fence, JsonFence, <<" ">>, <<"\n">>, <<"{", "}">>, <<"x">>}

RECURSIVE TextsOf(_)
TextsOf(n) ==
  IF n = 0 THEN {<<>>}
  ELSE LET shorter == TextsOf(n - 1)
       IN  shorter \cup {a \o b : a \in shorter, b \in Segments}

ProviderTexts == TextsOf(MaxSegs)

\* the i flag
Lower(c) ==
  IF c = "J" THEN "j" ELSE IF c = "S" THEN "s" ELSE IF c = "O" THEN "o"
  ELSE IF c = "N" THEN "n" ELSE c

StartsWith(s, pre) ==
  Len(s) >= Len(pre) /\ \A i \in 1..Len(pre) : Lower(s[i]) = pre[i]

EndsWith(s, suf) ==
  Len(s) >= Len(suf) /\ SubSeq(s, Len(s) - Len(suf) + 1, Len(s)) = suf

\* the first replace of jsonStr: at the start, three backticks and jso, an
\* optional n and any white space, ignoring case
StripOpenFence(s) ==
  IF StartsWith(s, Fence \o <<"j", "s", "o">>)
  THEN LET r == SubSeq(s, 7, Len(s))
       IN  TrimStart(IF r # <<>> /\ Lower(Head(r)) = "n" THEN Tail(r) ELSE r)
  ELSE s

\* a closing-fence removal that leaves the white space before the fence
StripCloseFenceOnly(s) ==
  IF EndsWith(s, Fence) THEN SubSeq(s, 1, Len(s) - 3) ELSE s

\* the second replace of jsonStr: any white space and three backticks at the
\* end of the text
StripCloseFence(s) ==
  IF EndsWith(s, Fence) THEN TrimEnd(SubSeq(s, 1, Len(s) - 3)) ELSE s

\* the fence stripping step of each function, from the text of the provider
StripFences(path, text) ==
  IF path = "analyze"
  THEN Trim(StripCloseFence(StripOpenFence(Trim(text))))
  ELSE StripCloseFence(StripOpenFence(Trim(text)))

\* JSON.parse succeeds: one JSON document, white space around it allowed
JsonParses(s) == Trim(s) = <<"{", "}">>

GwResult(kind, jsonStr) == [kind |-> kind, jsonStr |-> jsonStr]

NoGwResult == GwResult("none", <<>>)

\* analyzeWithGemini from response.text() on: "empty" is its empty-text
\* error, "invalidjson" the error it throws in place of the parse exception
analyzeWithGemini(text) ==
  LET raw == Trim(text)
      jsonStr == StripFences("analyze", text)
  IN  IF raw = <<>> THEN GwResult("empty", <<>>)
      ELSE IF JsonParses(jsonStr) THEN GwResult("ok", jsonStr)
      ELSE GwResult("invalidjson", jsonStr)

\* getNextQuestion from response.text() on: "noresponse" is its error for a
\* missing text, "syntaxerror" the exception of JSON.parse
getNextQuestion(text) ==
  LET jsonStr == StripFences("next", text)
  IN  IF text = <<>> THEN GwResult("noresponse", <<>>)
      ELSE IF JsonParses(jsonStr) THEN GwResult("ok", jsonStr)
      ELSE GwResult("syntaxerror", jsonStr)

\* ------------------------------------------------------------------------
\* POST /api/analyze and POST /api/tts: values
\* ------------------------------------------------------------------------

AnRequest(file) == [file |-> file]

NoAnRequest == AnRequest(FALSE)

\* what analyzeWithGemini gives the handler: an exception, a parsed value
\* that is not an object, or a parsed object
AnObj(fq, fit) == [kind |-> "obj", firstQuestion |-> fq, fitScore |-> fit]

AnFail(k) == [AnObj(<<>>, NoNum) EXCEPT !.kind = k]

AnNotCalled == AnFail("notcalled")

\* fitScore values of a model output: absent or not a number, below, inside
\* and above the range
FitOutputs == {NoNum, -5, 0, 80, 100, 150}

AnReplies ==
  {AnFail("throw"), AnFail("nonobj")} \cup
  {AnObj(fq, fit) : fq \in {<<>>, QText}, fit \in FitOutputs}

AnResponse(status, fq, fit) == [status |-> status, firstQuestion |-> fq, fitScore |-> fit]

NoAnResponse == AnResponse(0, <<>>, NoNum)

\* the checks of POST /api/analyze before analyzeWithGemini is called
AnalyzeEntryStatus(key, req) ==
  IF ~req.file THEN 400 ELSE IF ~key THEN 503 ELSE 200

\* the handler of POST /api/analyze
HandleAnalyze(key, req, reply) ==
  IF AnalyzeEntryStatus(key, req) # 200 THEN AnResponse(AnalyzeEntryStatus(key, req), <<>>, NoNum)
  ELSE IF reply.kind # "obj" THEN AnResponse(500, <<>>, NoNum)
  ELSE IF ~Truthy(reply.firstQuestion) \/ ~IsNumber(reply.fitScore)
  THEN AnResponse(500, <<>>, NoNum)
  ELSE AnResponse(200, reply.firstQuestion, reply.fitScore)

TtsEnv(apiKey, voiceId) == [apiKey |-> apiKey, voiceId |-> voiceId]

TtsRequest(text) == [text |-> text]

NoTtsRequest == TtsRequest(<<>>)

TtsTexts == {<<>>, <<" ">>, <<"a">>}

\* what the ElevenLabs request does
TtsReplies == {"ok", "notok", "throw"}

\* variant: the configuration is tested before the text
TtsEntryStatusConfigFirst(env, req) ==
  IF ~env.apiKey \/ ~env.voiceId THEN 503 ELSE IF Trim(req.text) = <<>> THEN 400 ELSE 200

\* the checks of POST /api/tts before the ElevenLabs request
TtsEntryStatus(env, req) ==
  IF Trim(req.text) = <<>> THEN 400 ELSE IF ~env.apiKey \/ ~env.voiceId THEN 503 ELSE 200

\* the handler of POST /api/tts: the status it answers with
HandleTts(env, req, reply) ==
  IF TtsEntryStatus(env, req) # 200 THEN TtsEntryStatus(env, req)
  ELSE IF reply = "throw" THEN 500
  ELSE IF reply = "notok" THEN 502
  ELSE 200

\* ------------------------------------------------------------------------
\* Speech to text: values
\* ------------------------------------------------------------------------

\* text of a partial transcript, of a committed transcript, and a character
\* the user types
PartialText == <<"p">>

CommittedText == <<"c">>

TypedChar == "u"

\* payload.text of an event: absent or empty, or the text
PartialTexts == {<<>>, PartialText}

CommittedTexts == {<<>>, CommittedText}

\* the same for the legacy page, which also tells a blank text apart
SecondCommittedText == <<"d">>

PageCommittedTexts == {<<>>, <<" ">>, CommittedText, SecondCommittedText}

\* the last event of the socket the client handled; n alternates from one
\* event to the next
SttEventOf(kind, text, n) == [kind |-> kind, text |-> text, n |-> n]

NoSttEvent == SttEventOf("none", <<>>, 0)

\* the value attribute of the answer textarea
TextareaValue(ans, partial) ==
  ans \o (IF partial # <<>> THEN (IF ans # <<>> THEN <<" ">> ELSE <<>>) \o partial ELSE <<>>)

\* the update of setAnswer for a committed transcript
CommitAppending(prev, text) ==
  prev \o (IF prev # <<>> /\ prev[Len(prev)] # " " THEN <<" ">> ELSE <<>>) \o text

\* what a keystroke makes of the text in the box: a character typed at the
\* end, or the last character deleted
Edits == {"type", "backspace"}

Edited(value, edit) ==
  IF edit = "type" THEN Append(value, TypedChar)
  ELSE IF value = <<>> THEN value
  ELSE SubSeq(value, 1, Len(value) - 1)

\* ------------------------------------------------------------------------
\* Audio Transcription Bridge: values
\* ------------------------------------------------------------------------

\* PCM frames by content, provider events by message_type
Frames == {"f1", "f2"}

ProviderEvents == {"partial_transcript", "committed_transcript"}

\* variant: the newest item is passed on
RelayLatest(inSeq, outSeq) == Append(outSeq, inSeq[Len(inSeq)])

\* the relay passes on the oldest item it has not passed on yet, as it is
RelayNext(inSeq, outSeq) == Append(outSeq, inSeq[Len(outSeq) + 1])

\* ------------------------------------------------------------------------
\* CodeQuestionBot: values
\* ------------------------------------------------------------------------

\* a repo URL is a sequence of characters; H stands for the text
\* https://github.com/
RepoUrls ==
  { <<>>,
    <<"H", "u", "/", "r">>,
    <<"H", "u", "/", "r", "/">>,
    <<"H", "u">>,
    <<"H", "u", "/">>,
    <<"H", "u", "/", "r", "/", "x">>,
    <<"u", "/", "r">> }

\* a character other than the slash (the text H stands for holds slashes)
NotSlash(c) == c \notin {"/", "H"}

\* the regular expression of isValidRepoUrl: the prefix, a segment without
\* a slash, a slash, a second segment, an optional slash, the end
isValidRepoUrl(value) ==
  /\ Len(value) >= 1 /\ value[1] = "H"
  /\ \E i \in 2..Len(value) : \E j \in (i + 2)..Len(value) :
       /\ \A k \in 2..i : NotSlash(value[k])
       /\ value[i + 1] = "/"
       /\ \A k \in (i + 2)..j : NotSlash(value[k])
       /\ (j = Len(value) \/ (j = Len(value) - 1 /\ value[Len(value)] = "/"))

\* the questions of a submission, by id
AllQuestions == {"q1", "q2"}

QuestionSets == {{}, {"q1"}, {"q1", "q2"}}

Submission(id, qs) == [id |-> id, questions |-> qs]

NoSubmission == Submission(0, {})

\* an answer text; the empty one also stands for a missing entry
AnswerTexts == {<<>>, <<" ">>, <<"a">>}

\* answers = {}
NoAnswers == [q \in AllQuestions |-> <<>>]

\* the last step of App: its kind and the repo URL it ran on
CqbEvent(kind, url) == [kind |-> kind, url |-> url, ok |-> FALSE, count |-> 0]

\* a step of a poll: its kind and, when getGrades settled, whether it
\* resolved and the number of grades in its list
PollEvent(kind, ok, n) == [kind |-> kind, url |-> <<>>, ok |-> ok, count |-> n]

\* a handler call suspended at an await
CqbCall(op, url, sub) == [op |-> op, url |-> url, sub |-> sub]

\* const maxAttempts = 60
maxAttempts == 60

\* a poll of handleSubmitAnswers: the submission its closure holds, its
\* attempts counter, and what it waits for (its timer or its getGrades call)
Poll(sub, attempts, phase) == [sub |-> sub, attempts |-> attempts, phase |-> phase]

\* the grades on screen: the submission they were fetched for and their number
Grades(id, n) == [sub |-> id, count |-> n]

NoGrades == Grades(0, 0)

\* lengths of the list getGrades returns
GradeCounts == 0..2

\* variant: no list counts as complete
gradesNeverComplete(n, sub) == FALSE

\* gradesList.length >= submission.questions.length
gradesComplete(n, sub) == n >= Cardinality(sub.questions)

\* variant: only an answer of length zero counts as empty
emptyIdsUntrimmed(sub, ans) == {q \in sub.questions : ans[q] = <<>>}

\* emptyIds of handleSubmitAnswers
emptyIds(sub, ans) == {q \in sub.questions : Trim(ans[q]) = <<>>}

\* ------------------------------------------------------------------------
\* State
\* ------------------------------------------------------------------------

VARIABLES
  hasKey,         \* GEMINI_API_KEY is set
  srvPc,          \* "idle" before the request, "sent" after the response
  srvReq,         \* req.body of the request handled
  nqReply,        \* what getNextQuestion's provider call produced
  scoreReply,     \* what the scoring call produced
  evalReply,      \* what the evaluation call produced
  answersAvgPct,  \* the local of that name
  out,            \* the handler's `out` when it responds
  outA,           \* `out` as Step A left it
  srvRes          \* the response sent

srvVars ==
  <<hasKey, srvPc, srvReq, nqReply, scoreReply, evalReply, answersAvgPct, out, outA, srvRes>>

\* React state of the AIInterviewer component
VARIABLES
  resumeFile,        \* a file is chosen
  jobTitle,
  analyzing,
  analysis,          \* analysis is not null
  messages,
  sessionContext,    \* [set, resumeSummary]; set = FALSE is null
  answer,
  sending,
  interviewDone,
  overallScore,      \* NoNum is null
  overallFeedback,
  analysisError,     \* an error text is displayed
  savedSessions,
  selectedSessionId, \* index into savedSessions, 0 for ''
  view,              \* the values of the last render, which handlers close over
  calls,             \* handleSendAnswer invocations suspended at an await
  scoringRequests,   \* requests of the current session with a scoring or evaluation call
  doneSinceStart,    \* interviewDone was set and no New Session / Start interview since
  doneSinceReset,    \* the same, Reload Summary counting as a start too
  event              \* the last step taken

clientVars ==
  <<resumeFile, jobTitle, analyzing, analysis, messages, sessionContext, answer, sending,
    interviewDone, overallScore, overallFeedback, analysisError, savedSessions,
    selectedSessionId, view, calls, scoringRequests, doneSinceStart, doneSinceReset, event>>

\* one call of the Model Gateway: the text the provider returned, the
\* function that was called and its outcome
VARIABLES
  gwText,
  gwPath,
  gwPc,
  gwRes

gwVars == <<gwText, gwPath, gwPc, gwRes>>

\* one request to POST /api/analyze or POST /api/tts: the request, what the
\* provider call returned and the response; ttsEnv is the ElevenLabs
\* configuration of the process
VARIABLES
  epPc,
  anReq,
  anReply,
  anRes,
  ttsEnv,
  ttsReq,
  ttsReply,
  ttsRes

epVars == <<epPc, anReq, anReply, anRes, ttsEnv, ttsReq, ttsReply, ttsRes>>

\* speech to text in the component: the recording flag, the partial
\* transcript on display, the socket of wsRef, the frames sent, and the last
\* event a socket delivered
VARIABLES
  isRecording,
  sttPartial,
  wsState,           \* "none" is wsRef null; else the readyState of its socket
  sttFrames,
  sttEvent,
  micPending,        \* startRecording calls suspended at getUserMedia
  strays,            \* readyStates of the live sockets wsRef no longer refers to
  errorSeen          \* an error message was handled since the recording began

sttVars == <<isRecording, sttPartial, wsState, sttFrames, sttEvent, micPending, strays, errorSeen>>

\* the legacy page script: the chat input, the live transcript line, the
\* recording flag, the socket startVoice made last (its readyState, "none"
\* before the first), whether the sttSocket variable refers to it, and the
\* last event the socket delivered
VARIABLES
  chatInput,
  liveTranscript,
  pageIsRecording,
  sttSocket,
  sttSocketSet,
  pageEvent,
  pageStrays,        \* readyStates of the live sockets made by earlier startVoice calls
  pageFrames,        \* frames sent
  voiceAudioCtx,     \* the recording whose stream, context and nodes the voice* variables hold
  pageMics,          \* getUserMedia calls awaited: TRUE for the one of the latest startVoice
  pageStops          \* stopVoice calls awaiting close(): TRUE while no startVoice ran since

voiceVars == <<voiceAudioCtx, pageMics, pageStops>>

pageVars ==
  <<chatInput, liveTranscript, pageIsRecording, sttSocket, sttSocketSet, pageEvent,
    pageStrays, pageFrames, voiceVars>>

\* the Audio Transcription Bridge: whether it relays, the frames it received
\* from the client and those it forwarded to the provider, the events of the
\* provider and those it sent to the client
VARIABLES
  brState,
  brReceived,
  brForwarded,
  brProviderEvents,
  brSentEvents

bridgeVars == <<brState, brReceived, brForwarded, brProviderEvents, brSentEvents>>

\* CodeQuestionBot: the state of App, the handler calls suspended at an
\* await, the submissions created so far and the last step taken
VARIABLES
  repoUrl,
  stage,
  submission,          \* [id, questions]; id = 0 is null
  error,               \* an error text is displayed
  submitPhase,
  answers,
  invalidAnswers,
  isSubmittingAnswers,
  submitError,         \* an error text is displayed
  isLoadingGrades,
  cqbCalls,
  cqbCreated,
  cqbEvent,
  grades,
  polls                \* the polls that have not ended

pollVars == <<grades, polls>>

cqbVars ==
  <<repoUrl, stage, submission, error, submitPhase, answers, invalidAnswers,
    isSubmittingAnswers, submitError, isLoadingGrades, cqbCalls, cqbCreated, cqbEvent,
    pollVars>>

\* the sessions collection of the session store
VARIABLE sessionStore

storeVars == <<sessionStore>>

otherVars == <<bridgeVars, cqbVars, storeVars>>

mainVars == <<srvVars, clientVars, gwVars, epVars, sttVars, pageVars, storeVars>>

auxVars == <<gwVars, epVars, sttVars, pageVars, otherVars>>

vars == <<srvVars, clientVars, auxVars>>

InitServer ==
  /\ hasKey \in BOOLEAN
  /\ srvPc = "idle"
  /\ srvReq = NoRequest
  /\ nqReply = NqNotCalled
  /\ scoreReply = ScoreNotCalled
  /\ evalReply = EvalNotCalled
  /\ answersAvgPct = NoNum
  /\ out = NoOut
  /\ outA = NoOut
  /\ srvRes = NoResponse

\* the component as mounted, with the list loadSessions fetched
\* the component as it mounts
Mounted ==
  /\ resumeFile = FALSE
  /\ jobTitle = <<>>
  /\ analyzing = FALSE
  /\ analysis = FALSE
  /\ messages = <<>>
  /\ sessionContext = NoContext
  /\ answer = <<>>
  /\ sending = FALSE
  /\ interviewDone = FALSE
  /\ overallScore = NoNum
  /\ overallFeedback = <<>>
  /\ analysisError = FALSE
  /\ selectedSessionId = 0
  /\ view = Rendered(<<>>, <<>>, FALSE)
  /\ calls = <<>>
  /\ scoringRequests = 0
  /\ doneSinceStart = FALSE
  /\ doneSinceReset = FALSE
  /\ event = Event("mount")

InitClient == Mounted /\ savedSessions \in SavedLists

\* no gateway call under observation
InitGateway ==
  /\ gwText = <<>>
  /\ gwPath = "none"
  /\ gwPc = "idle"
  /\ gwRes = NoGwResult

\* no request to the other endpoints yet
InitEndpointsIdle ==
  /\ epPc = "idle"
  /\ anReq = NoAnRequest
  /\ anReply = AnNotCalled
  /\ anRes = NoAnResponse
  /\ ttsReq = NoTtsRequest
  /\ ttsReply = "notcalled"
  /\ ttsRes = 0

\* not recording
InitStt ==
  /\ isRecording = FALSE
  /\ sttPartial = <<>>
  /\ wsState = "none"
  /\ sttFrames = 0
  /\ sttEvent = NoSttEvent
  /\ micPending = 0
  /\ strays = <<>>
  /\ errorSeen = FALSE

\* the legacy page as loaded
InitPage ==
  /\ chatInput = <<>>
  /\ liveTranscript = <<>>
  /\ pageIsRecording = FALSE
  /\ sttSocket = "none"
  /\ sttSocketSet = FALSE
  /\ pageEvent = NoSttEvent
  /\ pageStrays = <<>>
  /\ pageFrames = 0
  /\ voiceAudioCtx = "none"
  /\ pageMics = <<>>
  /\ pageStops = <<>>

\* a channel was opened and nothing was relayed yet
InitBridge ==
  /\ brState = "relaying"
  /\ brReceived = <<>>
  /\ brForwarded = <<>>
  /\ brProviderEvents = <<>>
  /\ brSentEvents = <<>>

\* App as mounted and signed in
InitCqb ==
  /\ repoUrl = <<>>
  /\ stage = "submit"
  /\ submission = NoSubmission
  /\ error = FALSE
  /\ submitPhase = "idle"
  /\ answers = NoAnswers
  /\ invalidAnswers = {}
  /\ isSubmittingAnswers = FALSE
  /\ submitError = FALSE
  /\ isLoadingGrades = FALSE
  /\ cqbCalls = <<>>
  /\ cqbCreated = 0
  /\ cqbEvent = CqbEvent("mount", <<>>)
  /\ grades = NoGrades
  /\ polls = <<>>

\* the store holds the sessions the list of the page load shows
InitStore == sessionStore = savedSessions

InitOther == InitBridge /\ InitCqb /\ InitStore

Init ==
  /\ InitServer /\ InitClient /\ InitGateway /\ InitEndpointsIdle /\ InitStt /\ InitPage
  /\ InitOther
  /\ ttsEnv = TtsEnv(TRUE, TRUE)

\* ------------------------------------------------------------------------
\* POST /api/interview/next
\* ------------------------------------------------------------------------

\* one request handled from entry to response; a provider call that is not
\* made has no reply
SrvHandle(req, nq, sc, ev) ==
  /\ srvPc = "idle"
  /\ srvPc' = "sent"
  /\ srvReq' = req
  /\ nqReply' = nq
  /\ scoreReply' = sc
  /\ evalReply' = ev
  /\ LET h == HandleInterviewNext(hasKey, req, nq, sc, ev)
     IN  /\ srvRes' = h.res
         /\ out' = h.out
         /\ outA' = h.outA
         /\ answersAvgPct' = h.answersAvgPct
  /\ UNCHANGED <<hasKey, clientVars, auxVars>>

NextServer ==
  /\ srvPc = "idle"
  /\ \E req \in Requests :
    \E nq \in (IF EntryStatus(hasKey, req) = 200 THEN NqReplies ELSE {NqNotCalled}) :
      \E sc \in (IF ScoringCalled(hasKey, req, nq) THEN ScoreReplies ELSE {ScoreNotCalled}) :
        \E ev \in (IF EvaluationCalled(hasKey, req, nq, sc) THEN EvalReplies ELSE {EvalNotCalled}) :
          SrvHandle(req, nq, sc, ev)

SpecServer == Init /\ [][NextServer]_vars

\* the per-question scoring step alone, for every fit score and every average
\* of the grid
NextBlend ==
  /\ srvPc = "idle"
  /\ hasKey
  /\ \E fit \in (0..100) \cup {NoNum} :
       \E avg \in (0..(10 * AvgDen)) \cup {NoNum} :
         \E pqs \in ScoreArrays :
           \E ev \in {EvalFail("throw"), EvalObj(50, FbText, Bye)} :
             SrvHandle(Request(SumText, TRUE, Transcript(2), fit),
                       NqObj(TRUE, Thanks, <<>>, NoNum, <<>>),
                       ScoreObj(TRUE, pqs, avg), ev)

SpecBlend == Init /\ [][NextBlend]_vars

\* ------------------------------------------------------------------------
\* Model Gateway: one call
\* ------------------------------------------------------------------------

\* a provider text reaches one of the two functions
InitGatewayCall ==
  /\ InitServer /\ InitClient /\ InitEndpointsIdle /\ InitStt /\ InitPage /\ InitOther
  /\ ttsEnv = TtsEnv(TRUE, TRUE)
  /\ gwText \in ProviderTexts
  /\ gwPath = "none"
  /\ gwPc = "ready"
  /\ gwRes = NoGwResult

CallGateway(path) ==
  /\ gwPc = "ready"
  /\ gwPath' = path
  /\ gwRes' = IF path = "analyze" THEN analyzeWithGemini(gwText) ELSE getNextQuestion(gwText)
  /\ gwPc' = "done"
  /\ UNCHANGED <<srvVars, otherVars, clientVars, epVars, sttVars, pageVars, gwText>>

NextGateway == \E path \in {"analyze", "next"} : CallGateway(path)

SpecGateway == InitGatewayCall /\ [][NextGateway]_vars

\* ------------------------------------------------------------------------
\* The three endpoints that need a credential
\* ------------------------------------------------------------------------

InitEndpoints ==
  /\ InitServer /\ InitClient /\ InitGateway /\ InitEndpointsIdle /\ InitStt /\ InitPage /\ InitOther
  /\ ttsEnv \in {TtsEnv(k, v) : k \in BOOLEAN, v \in BOOLEAN}

AnalyzeRequest(req, reply) ==
  /\ anReq' = req
  /\ anReply' = reply
  /\ anRes' = HandleAnalyze(hasKey, req, reply)
  /\ epPc' = "analyze"
  /\ UNCHANGED <<srvVars, otherVars, clientVars, gwVars, sttVars, pageVars, ttsEnv, ttsReq, ttsReply, ttsRes>>

TtsCall(req, reply) ==
  /\ ttsReq' = req
  /\ ttsReply' = reply
  /\ ttsRes' = HandleTts(ttsEnv, req, reply)
  /\ epPc' = "tts"
  /\ UNCHANGED <<srvVars, otherVars, clientVars, gwVars, sttVars, pageVars, ttsEnv, anReq, anReply, anRes>>

NextEndpoints ==
  /\ epPc = "idle" /\ srvPc = "idle"
  /\ \/ \E req \in Requests :
          \E nq \in (IF EntryStatus(hasKey, req) = 200
                      THEN {NqFail("throw"), NqObj(FALSE, <<>>, QText, NoNum, <<>>)}
                      ELSE {NqNotCalled}) :
            SrvHandle(req, nq, ScoreNotCalled, EvalNotCalled)
     \/ \E req \in {AnRequest(f) : f \in BOOLEAN} :
          \E reply \in (IF AnalyzeEntryStatus(hasKey, req) = 200 THEN AnReplies
                         ELSE {AnNotCalled}) :
            AnalyzeRequest(req, reply)
     \/ \E req \in {TtsRequest(t) : t \in TtsTexts} :
          \E reply \in (IF TtsEntryStatus(ttsEnv, req) = 200 THEN TtsReplies
                         ELSE {"notcalled"}) :
            TtsCall(req, reply)

SpecEndpoints == InitEndpoints /\ [][NextEndpoints]_vars

\* ------------------------------------------------------------------------
\* The AIInterviewer component: handlers
\* ------------------------------------------------------------------------

\* the last render shows the current state
IsRendered == view = Rendered(messages, answer, sending)

\* every handler but the synchronous part of handleSendAnswer is followed by
\* its render at once
Sync == view' = Rendered(messages', answer', sending')

\* the answer-area is in the DOM
AnswerAreaShown == ~analyzing /\ analysis /\ Len(view.messages) > 0 /\ ~interviewDone

\* file input onChange
ChooseFile(b) ==
  /\ IsRendered
  /\ b # resumeFile
  /\ resumeFile' = b
  /\ event' = Event("input")
  /\ UNCHANGED <<srvVars, auxVars, jobTitle, analyzing, analysis, messages, sessionContext, answer,
                 sending, interviewDone, overallScore, overallFeedback, analysisError,
                 savedSessions, selectedSessionId, view, calls, scoringRequests,
                 doneSinceStart, doneSinceReset>>

\* job title onChange
TypeJobTitle(t) ==
  /\ IsRendered
  /\ t # jobTitle
  /\ jobTitle' = t
  /\ event' = Event("input")
  /\ UNCHANGED <<srvVars, auxVars, resumeFile, analyzing, analysis, messages, sessionContext, answer,
                 sending, interviewDone, overallScore, overallFeedback, analysisError,
                 savedSessions, selectedSessionId, view, calls, scoringRequests,
                 doneSinceStart, doneSinceReset>>

\* Start interview: handleAnalyze up to its fetch
handleAnalyze ==
  /\ IsRendered
  /\ ~analyzing /\ resumeFile
  /\ IF ~resumeFile \/ Trim(jobTitle) = <<>>
     THEN /\ analysisError' = TRUE
          /\ event' = Event("analyzeRejected")
          /\ UNCHANGED <<analyzing, analysis, messages, sessionContext, interviewDone,
                         overallScore, overallFeedback, calls, scoringRequests,
                         doneSinceStart, doneSinceReset>>
     ELSE /\ analysisError' = FALSE
          /\ analyzing' = TRUE
          /\ analysis' = FALSE
          /\ messages' = <<>>
          /\ sessionContext' = NoContext
          /\ interviewDone' = FALSE
          /\ overallScore' = NoNum
          /\ overallFeedback' = <<>>
          /\ calls' = Detach(calls)
          /\ scoringRequests' = 0
          /\ doneSinceStart' = FALSE
          /\ doneSinceReset' = FALSE
          /\ event' = Event("analyzeStart")
  /\ UNCHANGED <<srvVars, auxVars, resumeFile, jobTitle, answer, sending, savedSessions, selectedSessionId>>
  /\ Sync

\* what POST /api/analyze can answer: an error, or a ResumeAnalysis with a
\* non-empty firstQuestion and any resumeSummary
AnalyzeReplies(key) ==
  {[ok |-> FALSE, resumeSummary |-> <<>>]} \cup
  (IF key THEN {[ok |-> TRUE, resumeSummary |-> rs] : rs \in {<<>>, SumText}} ELSE {})

\* handleAnalyze after its fetch
AnalyzeSettled(reply) ==
  /\ IsRendered
  /\ analyzing
  /\ analyzing' = FALSE
  /\ IF reply.ok
     THEN /\ analysis' = TRUE
          /\ sessionContext' = Context(reply.resumeSummary)
          /\ messages' = <<Msg("assistant", QText)>>
          /\ event' = Event("analyzed")
          /\ UNCHANGED analysisError
     ELSE /\ analysisError' = TRUE
          /\ event' = Event("analyzeFailed")
          /\ UNCHANGED <<analysis, sessionContext, messages>>
  /\ UNCHANGED <<srvVars, auxVars, resumeFile, jobTitle, answer, sending, interviewDone, overallScore,
                 overallFeedback, savedSessions, selectedSessionId, calls, scoringRequests,
                 doneSinceStart, doneSinceReset>>
  /\ Sync

\* the New Session button
NewSession ==
  /\ IsRendered
  /\ analysis' = FALSE
  /\ messages' = <<>>
  /\ sessionContext' = NoContext
  /\ interviewDone' = FALSE
  /\ overallScore' = NoNum
  /\ overallFeedback' = <<>>
  /\ calls' = Detach(calls)
  /\ scoringRequests' = 0
  /\ doneSinceStart' = FALSE
  /\ doneSinceReset' = FALSE
  /\ event' = Event("newSession")
  /\ UNCHANGED <<srvVars, auxVars, resumeFile, jobTitle, analyzing, answer, sending, analysisError,
                 savedSessions, selectedSessionId>>
  /\ Sync

\* answer textarea onChange
TypeAnswer(t) ==
  /\ IsRendered
  /\ AnswerAreaShown /\ ~view.sending
  /\ t # answer
  /\ answer' = t
  /\ event' = Event("input")
  /\ UNCHANGED <<srvVars, auxVars, resumeFile, jobTitle, analyzing, analysis, messages, sessionContext,
                 sending, interviewDone, overallScore, overallFeedback, analysisError,
                 savedSessions, selectedSessionId, calls, scoringRequests,
                 doneSinceStart, doneSinceReset>>
  /\ Sync

\* the guard of handleSendAnswer, on the values its render closed over
SendRefused(text) == text = <<>> \/ ~sessionContext.set \/ view.sending \/ interviewDone

\* a send gesture (Enter in the textarea or a click on Send): handleSendAnswer
\* up to its fetch.  The render that follows is a step of its own, and a
\* second gesture can come before it.
SendGesture ==
  /\ AnswerAreaShown /\ ~view.sending
  /\ LET text == Trim(view.answer)
         userMessage == Msg("user", text)
     IN  IF SendRefused(text)
         THEN /\ event' = Event("sendNoop")
              /\ UNCHANGED <<messages, answer, sending, analysisError, calls>>
         ELSE /\ Len(calls) < MaxInFlight
              /\ Len(messages) + Len(calls) + 2 <= MaxTranscript
              /\ messages' = AppendMessage(messages, userMessage)
              /\ answer' = <<>>
              /\ sending' = TRUE
              /\ analysisError' = FALSE
              /\ calls' = Append(calls, Call(Append(view.messages, userMessage),
                                              sessionContext, "fetch", TRUE, messages))
              /\ event' = Event("send")
  /\ UNCHANGED <<srvVars, auxVars, resumeFile, jobTitle, analyzing, analysis, sessionContext,
                 interviewDone, overallScore, overallFeedback, savedSessions,
                 selectedSessionId, view, scoringRequests, doneSinceStart, doneSinceReset>>

\* the re-render after handleSendAnswer's state updates
Render ==
  /\ ~IsRendered
  /\ view' = Rendered(messages, answer, sending)
  /\ UNCHANGED <<srvVars, auxVars, resumeFile, jobTitle, analyzing, analysis, messages, sessionContext,
                 answer, sending, interviewDone, overallScore, overallFeedback, analysisError,
                 savedSessions, selectedSessionId, calls, scoringRequests,
                 doneSinceStart, doneSinceReset, event>>

\* the body of POST /api/session/save: messages is nextMessages, score and
\* feedback are those of the response
saveBody(call, res) ==
  SavedSession(call.nextMessages, res.overallScore, res.overallFeedback, call.resumeSummary)

\* catch + finally of handleSendAnswer: the error is shown, sending is reset
\* what the server did with a request: scoring or evaluation called, the
\* fitScore it read from the body, the blending assignment made
Observed(scored, fit, blended) == [scored |-> scored, fitScore |-> fit, blended |-> blended]

NotObserved == Observed(FALSE, NoNum, FALSE)

\* variant: the request carries the fit score of the analysis
nextRequestWithFit(call) == Request(call.resumeSummary, TRUE, call.nextMessages, 80)

\* the body of POST /api/interview/next: resumeSummary and messages, and no
\* fitScore
nextRequest(call) == Request(call.resumeSummary, TRUE, call.nextMessages, NoNum)

SendFailed(i, status, obs) ==
  /\ analysisError' = TRUE
  /\ sending' = FALSE
  /\ calls' = RemoveAt(calls, i)
  /\ event' = EventOf("fail", status, FALSE, FALSE, obs.scored, FALSE,
                      calls[i].resumeSummary, messages, calls[i].before,
                      obs.fitScore, obs.blended)
  /\ UNCHANGED <<messages, overallScore, overallFeedback>>

\* handleSendAnswer from `const data = await res.json()` to its next await
\* or its end, on the response res of the server
SendResponded(i, res, nqDone, obs) ==
  IF res.status # 200 \/ ~res.isObj
  THEN SendFailed(i, res.status, obs)
  ELSE IF res.done /\ Truthy(res.closingMessage)
  THEN /\ overallScore' = IF IsNumber(res.overallScore) THEN res.overallScore ELSE overallScore
       /\ overallFeedback' = IF Truthy(res.overallFeedback) THEN res.overallFeedback
                              ELSE overallFeedback
       /\ messages' = AppendMessage(messages, Msg("assistant", res.closingMessage))
       /\ calls' = [calls EXCEPT ![i].stage = "save",
                                 ![i].saved = saveBody(calls[i], res)]
       /\ event' = EventOf("closing", 200, TRUE, nqDone, obs.scored, Truthy(res.nextQuestion),
                           calls[i].resumeSummary, <<>>, <<>>, obs.fitScore, obs.blended)
       /\ UNCHANGED <<sending, analysisError>>
  ELSE IF Truthy(res.nextQuestion)
  THEN /\ messages' = AppendMessage(messages, Msg("assistant", res.nextQuestion))
       /\ sending' = FALSE
       /\ calls' = RemoveAt(calls, i)
       /\ event' = EventOf("next", 200, res.done, nqDone, obs.scored, TRUE,
                           calls[i].resumeSummary, <<>>, <<>>, obs.fitScore, obs.blended)
       /\ UNCHANGED <<overallScore, overallFeedback, analysisError>>
  ELSE /\ sending' = FALSE
       /\ calls' = RemoveAt(calls, i)
       /\ event' = EventOf("neither", 200, res.done, nqDone, obs.scored, FALSE,
                           calls[i].resumeSummary, <<>>, <<>>, obs.fitScore, obs.blended)
       /\ UNCHANGED <<messages, overallScore, overallFeedback, analysisError>>

\* the request of call i is handled by the server and its response by the
\* client
Exchange(i, nq, sc, ev) ==
  /\ IsRendered
  /\ calls[i].stage = "fetch"
  /\ LET req == nextRequest(calls[i])
         scored == ScoringCalled(hasKey, req, nq) \/ EvaluationCalled(hasKey, req, nq, sc)
         obs == Observed(scored, req.fitScore, BlendingTaken(hasKey, req, nq, sc))
     IN  /\ SendResponded(i, HandleInterviewNext(hasKey, req, nq, sc, ev).res,
                          nq.kind = "obj" /\ nq.done, obs)
         /\ scoringRequests' = IF scored /\ calls[i].current
                                THEN Min(scoringRequests + 1, 2) ELSE scoringRequests
  /\ UNCHANGED <<srvVars, auxVars, resumeFile, jobTitle, analyzing, analysis, sessionContext, answer,
                 interviewDone, savedSessions, selectedSessionId, doneSinceStart, doneSinceReset>>
  /\ Sync

\* fetch rejects, or res.json() does
NetFail(i) ==
  /\ IsRendered
  /\ calls[i].stage = "fetch"
  /\ SendFailed(i, 0, NotObserved)
  /\ UNCHANGED <<srvVars, auxVars, resumeFile, jobTitle, analyzing, analysis, sessionContext, answer,
                 interviewDone, savedSessions, selectedSessionId, scoringRequests,
                 doneSinceStart, doneSinceReset>>
  /\ Sync

\* getSessions: find().sort({ createdAt: -1 }).toArray(); the sessions the
\* client saves carry no createdAt, their order is the one of the collection
getSessions(store) == store

\* saveSession: insertOne(session)
saveSession(store, session) == Append(store, session)

\* the fetch of /api/session/save settles, with the session stored or not:
\* setInterviewDone(true) and the finally block
SaveSettled(i, stored) ==
  /\ IsRendered
  /\ calls[i].stage = "save"
  /\ IF stored
     THEN /\ Len(sessionStore) < MaxStored
          /\ sessionStore' = saveSession(sessionStore, calls[i].saved)
     ELSE UNCHANGED sessionStore
  /\ interviewDone' = TRUE
  /\ sending' = FALSE
  /\ calls' = RemoveAt(calls, i)
  /\ doneSinceStart' = TRUE
  /\ doneSinceReset' = TRUE
  /\ event' = Event("saved")
  /\ UNCHANGED <<srvVars, gwVars, epVars, sttVars, pageVars, bridgeVars, cqbVars,
                 resumeFile, jobTitle, analyzing, analysis, messages, sessionContext,
                 answer, overallScore, overallFeedback, analysisError, savedSessions,
                 selectedSessionId, scoringRequests>>
  /\ Sync

\* [...messages].reverse().find(m => m.role === 'user'), as an index (0: none)
LastUserIndex(msgs) ==
  IF \E i \in 1..Len(msgs) : msgs[i].role = "user"
  THEN CHOOSE i \in 1..Len(msgs) :
         /\ msgs[i].role = "user"
         /\ \A j \in (i + 1)..Len(msgs) : msgs[j].role # "user"
  ELSE 0

\* isDone of handleResumeSession
ResumedDone(session) ==
  /\ IsNumber(session.score)
  /\ Len(session.messages) > 0
  /\ session.messages[Len(session.messages)].role = "assistant"

\* session k is picked in the select (its onChange only sets
\* selectedSessionId, which nothing else reads) and Reload Summary is clicked
handleResumeSession(k) ==
  /\ IsRendered
  /\ selectedSessionId' = k
  /\ LET session == savedSessions[k]
         isDone == ResumedDone(session)
         lastUser == LastUserIndex(session.messages)
     IN  /\ sessionContext' = Context(session.resume_summary)
         /\ messages' = session.messages
         /\ overallScore' = session.score
         /\ overallFeedback' = session.feedback
         /\ interviewDone' = isDone
         /\ answer' = IF ~isDone /\ lastUser # 0 THEN session.messages[lastUser].content
                       ELSE answer
         /\ doneSinceStart' = (doneSinceStart \/ isDone)
         /\ doneSinceReset' = isDone
  /\ calls' = Detach(calls)
  /\ scoringRequests' = 0
  /\ event' = Event("resume")
  /\ UNCHANGED <<srvVars, auxVars, resumeFile, jobTitle, analyzing, analysis, sending, analysisError,
                 savedSessions>>
  /\ Sync

\* the request of invocation i answered by the server, for every reply of
\* the provider
Respond(i) ==
  /\ IsRendered
  /\ calls[i].stage = "fetch"
  /\ LET req == nextRequest(calls[i])
     IN  \E nq \in (IF EntryStatus(hasKey, req) = 200 THEN ClientNqReplies ELSE {NqNotCalled}) :
           \E sc \in (IF ScoringCalled(hasKey, req, nq) THEN ClientScoreReplies
                       ELSE {ScoreNotCalled}) :
             \E ev \in (IF EvaluationCalled(hasKey, req, nq, sc) THEN ClientEvalReplies
                         ELSE {EvalNotCalled}) :
               Exchange(i, nq, sc, ev)

\* every step of the component but Reload Summary: the sessions on screen are
\* the ones Start interview started.  Nothing here reads the session store
\* (the list is loaded when the component mounts), so the save is taken as
\* not stored.
NextStarted ==
  \/ ChooseFile(TRUE)
  \/ \E t \in JobTitles : TypeJobTitle(t)
  \/ handleAnalyze
  \/ \E reply \in AnalyzeReplies(hasKey) : AnalyzeSettled(reply)
  \/ NewSession
  \/ \E t \in AnswerInputs : TypeAnswer(t)
  \/ SendGesture
  \/ Render
  \/ \E i \in 1..Len(calls) : Respond(i)
  \/ \E i \in 1..Len(calls) : NetFail(i)
  \/ \E i \in 1..Len(calls) : SaveSettled(i, FALSE)

SpecStarted == Init /\ [][NextStarted]_vars

Next ==
  \/ NextStarted
  \/ \E k \in 1..Len(savedSessions) : handleResumeSession(k)

Spec == Init /\ [][Next]_vars

\* the page is loaded again: the component mounts with its initial state,
\* the handlers of the page before are gone, and loadSessions puts the
\* sessions of the store in savedSessions, or fails and leaves the list empty
PageReload(listed) ==
  /\ resumeFile' = FALSE
  /\ jobTitle' = <<>>
  /\ analyzing' = FALSE
  /\ analysis' = FALSE
  /\ messages' = <<>>
  /\ sessionContext' = NoContext
  /\ answer' = <<>>
  /\ sending' = FALSE
  /\ interviewDone' = FALSE
  /\ overallScore' = NoNum
  /\ overallFeedback' = <<>>
  /\ analysisError' = FALSE
  /\ savedSessions' = IF listed THEN getSessions(sessionStore) ELSE <<>>
  /\ selectedSessionId' = 0
  /\ calls' = <<>>
  /\ scoringRequests' = 0
  /\ doneSinceStart' = FALSE
  /\ doneSinceReset' = FALSE
  /\ event' = Event("mount")
  /\ UNCHANGED <<srvVars, auxVars>>
  /\ Sync

\* one interview per page load, its session saved, the page loaded again and
\* a saved session picked for Reload Summary
NextReload ==
  \/ ChooseFile(TRUE)
  \/ \E t \in JobTitles : TypeJobTitle(t)
  \/ ~analysis /\ handleAnalyze
  \/ hasKey /\ AnalyzeSettled([ok |-> TRUE, resumeSummary |-> SumText])
  \/ \E t \in AnswerInputs : TypeAnswer(t)
  \/ IsRendered /\ SendGesture
  \/ Render
  \/ \E i \in 1..Len(calls) : Respond(i)
  \/ \E i \in 1..Len(calls) : NetFail(i)
  \/ \E i \in 1..Len(calls) : \E stored \in BOOLEAN : SaveSettled(i, stored)
  \/ \E k \in 1..Len(savedSessions) : handleResumeSession(k)
  \/ \E listed \in BOOLEAN : PageReload(listed)

\* the first page load, with nothing in the store yet
InitReload ==
  /\ InitServer /\ Mounted /\ savedSessions = <<>>
  /\ InitGateway /\ InitEndpointsIdle /\ InitStt /\ InitPage /\ InitOther
  /\ ttsEnv = TtsEnv(TRUE, TRUE)

SpecReload == InitReload /\ [][NextReload]_vars

\* ------------------------------------------------------------------------
\* Speech to text in the component
\* ------------------------------------------------------------------------

\* the component state a speech-to-text handler leaves alone
sttClientRest ==
  <<resumeFile, jobTitle, analyzing, analysis, messages, sessionContext, sending,
    interviewDone, overallScore, overallFeedback, savedSessions, selectedSessionId,
    calls, scoringRequests, doneSinceStart, doneSinceReset, event>>

\* the microphone button is in the DOM and enabled
MicEnabled == AnswerAreaShown /\ ~view.sending

\* a socket that is connecting or open
Live == {"connecting", "open"}

\* some socket of the component is open
SomeSocketOpen == wsState = "open" \/ \E i \in 1..Len(strays) : strays[i] = "open"

\* the speech-to-text state only startRecording and the sockets change
sttRest == <<sttFrames, micPending, strays>>

\* stopRecording: the socket of wsRef is closed
stopRecording ==
  /\ wsState' = "none"
  /\ isRecording' = FALSE
  /\ sttPartial' = <<>>

\* a click on the microphone button while it reads Speak: startRecording up
\* to its await of getUserMedia
StartRecording ==
  /\ IsRendered
  /\ MicEnabled /\ ~isRecording
  /\ micPending < MaxPending
  /\ micPending' = micPending + 1
  /\ UNCHANGED <<srvVars, otherVars, clientVars, gwVars, epVars, pageVars, isRecording, sttPartial,
                 wsState, sttFrames, sttEvent, strays, errorSeen>>

\* getUserMedia settles: with the microphone granted a new socket is made
\* and stored in wsRef, whatever wsRef referred to; else the error is shown
MicrophoneSettled(granted) ==
  /\ IsRendered
  /\ micPending > 0
  /\ micPending' = micPending - 1
  /\ IF granted
     THEN /\ wsState \in Live => Len(strays) < MaxStrays
          /\ strays' = IF wsState \in Live THEN Append(strays, wsState) ELSE strays
          /\ wsState' = "connecting"
          /\ isRecording' = TRUE
          /\ sttPartial' = <<>>
          /\ sttFrames' = 0
          /\ errorSeen' = FALSE
          /\ UNCHANGED analysisError
     ELSE /\ analysisError' = TRUE
          /\ UNCHANGED <<wsState, isRecording, sttPartial, sttFrames, strays, errorSeen>>
  /\ UNCHANGED <<srvVars, otherVars, gwVars, epVars, pageVars, sttClientRest, answer, sttEvent>>
  /\ Sync

\* a click on the microphone button while it reads Stop
StopRecording ==
  /\ IsRendered
  /\ MicEnabled /\ isRecording
  /\ stopRecording
  /\ UNCHANGED <<srvVars, otherVars, gwVars, epVars, pageVars, sttClientRest, answer, analysisError,
                 sttRest, sttEvent, errorSeen>>
  /\ Sync

\* ws.onopen
WsOpened ==
  /\ wsState = "connecting"
  /\ wsState' = "open"
  /\ UNCHANGED <<srvVars, otherVars, clientVars, gwVars, epVars, pageVars, isRecording, sttPartial,
                 sttRest, sttEvent, errorSeen>>

\* ws.onopen of a socket wsRef no longer refers to
StrayOpened(i) ==
  /\ strays[i] = "connecting"
  /\ strays' = [strays EXCEPT ![i] = "open"]
  /\ UNCHANGED <<srvVars, otherVars, clientVars, gwVars, epVars, pageVars, isRecording, sttPartial,
                 wsState, sttFrames, micPending, sttEvent, errorSeen>>

\* processor.onaudioprocess: one frame of PCM is sent on the socket of wsRef
SendFrame ==
  /\ wsState = "open"
  /\ sttFrames < MaxFrames
  /\ sttFrames' = sttFrames + 1
  /\ UNCHANGED <<srvVars, otherVars, clientVars, gwVars, epVars, pageVars, isRecording, sttPartial,
                 wsState, micPending, strays, sttEvent, errorSeen>>

\* the same for the processor of a socket wsRef no longer refers to:
\* stopRecording disconnects the processor of processorRef only
StraySendFrame(i) ==
  /\ strays[i] = "open"
  /\ sttFrames < MaxFrames
  /\ sttFrames' = sttFrames + 1
  /\ UNCHANGED <<srvVars, otherVars, clientVars, gwVars, epVars, pageVars, isRecording, sttPartial,
                 wsState, micPending, strays, sttEvent, errorSeen>>

\* ws.onmessage with a partial_transcript
PartialTranscript(text) ==
  /\ IsRendered
  /\ SomeSocketOpen
  /\ sttPartial' = IF text # <<>> THEN text ELSE sttPartial
  /\ sttEvent' = SttEventOf("partial", text, 1 - sttEvent.n)
  /\ UNCHANGED <<srvVars, otherVars, gwVars, epVars, pageVars, sttClientRest, answer, analysisError,
                 isRecording, wsState, sttRest, errorSeen>>
  /\ Sync

\* ws.onmessage with a committed_transcript
CommittedTranscript(text) ==
  /\ IsRendered
  /\ SomeSocketOpen
  /\ Len(CommitAppending(answer, text)) <= MaxAnswer
  /\ IF text # <<>>
     THEN /\ answer' = CommitAppending(answer, text)
          /\ sttPartial' = <<>>
     ELSE UNCHANGED <<answer, sttPartial>>
  /\ sttEvent' = SttEventOf("committed", text, 1 - sttEvent.n)
  /\ UNCHANGED <<srvVars, otherVars, gwVars, epVars, pageVars, sttClientRest, analysisError,
                 isRecording, wsState, sttRest, errorSeen>>
  /\ Sync

\* variant: an error message ends the recording
onErrorMessageStopping ==
  /\ analysisError' = TRUE
  /\ stopRecording

\* the branch of ws.onmessage for an error message
onErrorMessage ==
  /\ analysisError' = TRUE
  /\ UNCHANGED <<isRecording, sttPartial, wsState>>

\* ws.onmessage with an error message
SttErrorMessage ==
  /\ IsRendered
  /\ SomeSocketOpen
  /\ onErrorMessage
  /\ sttEvent' = SttEventOf("error", <<>>, 1 - sttEvent.n)
  /\ errorSeen' = TRUE
  /\ UNCHANGED <<srvVars, otherVars, gwVars, epVars, pageVars, sttClientRest, answer, sttRest>>
  /\ Sync

\* ws.onerror of the socket of wsRef
WsError ==
  /\ IsRendered
  /\ wsState \in Live
  /\ analysisError' = TRUE
  /\ stopRecording
  /\ UNCHANGED <<srvVars, otherVars, gwVars, epVars, pageVars, sttClientRest, answer, sttRest,
                 sttEvent, errorSeen>>
  /\ Sync

\* ws.onerror of a socket wsRef no longer refers to: the connection fails,
\* and stopRecording closes the socket of wsRef
StrayError(i) ==
  /\ IsRendered
  /\ i \in 1..Len(strays)
  /\ strays' = RemoveAt(strays, i)
  /\ analysisError' = TRUE
  /\ stopRecording
  /\ UNCHANGED <<srvVars, otherVars, gwVars, epVars, pageVars, sttClientRest, answer, sttFrames,
                 micPending, sttEvent, errorSeen>>
  /\ Sync

\* the bridge closes the socket: ws.onclose does nothing
WsClosed ==
  /\ wsState = "open"
  /\ wsState' = "closed"
  /\ UNCHANGED <<srvVars, otherVars, clientVars, gwVars, epVars, pageVars, isRecording, sttPartial,
                 sttRest, sttEvent, errorSeen>>

\* the same for a socket wsRef no longer refers to
StrayClosed(i) ==
  /\ strays[i] = "open"
  /\ strays' = RemoveAt(strays, i)
  /\ UNCHANGED <<srvVars, otherVars, clientVars, gwVars, epVars, pageVars, isRecording, sttPartial,
                 wsState, sttFrames, micPending, sttEvent, errorSeen>>

\* answer textarea onChange, on the text the box shows
EditAnswer(edit) ==
  /\ IsRendered
  /\ AnswerAreaShown /\ ~view.sending
  /\ LET value == TextareaValue(answer, sttPartial)
     IN  /\ Edited(value, edit) # value
         /\ Len(Edited(value, edit)) <= MaxAnswer
         /\ answer' = Edited(value, edit)
  /\ sttPartial' = <<>>
  /\ UNCHANGED <<srvVars, otherVars, gwVars, epVars, pageVars, sttClientRest, analysisError,
                 isRecording, wsState, sttRest, sttEvent, errorSeen>>
  /\ Sync

\* one interview with the microphone: the interview is started once, one
\* answer is sent, and the microphone button is clicked once its last click
\* has settled
NextStt ==
  \/ ChooseFile(TRUE)
  \/ \E t \in JobTitles : TypeJobTitle(t)
  \/ ~analysis /\ handleAnalyze
  \/ hasKey /\ AnalyzeSettled([ok |-> TRUE, resumeSummary |-> SumText])
  \/ micPending = 0 /\ StartRecording
  \/ \E granted \in BOOLEAN : MicrophoneSettled(granted)
  \/ StopRecording
  \/ WsOpened
  \/ SendFrame
  \/ \E text \in PartialTexts : PartialTranscript(text)
  \/ \E text \in CommittedTexts : CommittedTranscript(text)
  \/ SttErrorMessage
  \/ WsError
  \/ WsClosed
  \/ \E edit \in Edits : EditAnswer(edit)
  \/ Len(messages) <= 1 /\ SendGesture
  \/ Render
  \/ \E i \in 1..Len(calls) : NetFail(i)

SpecStt == Init /\ [][NextStt]_vars

\* the microphone button under any sequence of clicks, with no typing and
\* no answer sent
NextRec ==
  \/ ChooseFile(TRUE)
  \/ \E t \in JobTitles : TypeJobTitle(t)
  \/ ~analysis /\ handleAnalyze
  \/ hasKey /\ AnalyzeSettled([ok |-> TRUE, resumeSummary |-> SumText])
  \/ StartRecording
  \/ \E granted \in BOOLEAN : MicrophoneSettled(granted)
  \/ StopRecording
  \/ WsOpened
  \/ \E i \in 1..Len(strays) : StrayOpened(i)
  \/ SendFrame
  \/ \E i \in 1..Len(strays) : StraySendFrame(i)
  \/ \E text \in PartialTexts : PartialTranscript(text)
  \/ \E text \in CommittedTexts : CommittedTranscript(text)
  \/ SttErrorMessage
  \/ WsError
  \/ \E i \in 1..Len(strays) : StrayError(i)
  \/ WsClosed
  \/ \E i \in 1..Len(strays) : StrayClosed(i)

SpecRec == Init /\ [][NextRec]_vars

\* ------------------------------------------------------------------------
\* Speech to text in the legacy page script
\* ------------------------------------------------------------------------

\* some socket of the page is open
SomePageSocketOpen ==
  sttSocket = "open" \/ \E i \in 1..Len(pageStrays) : pageStrays[i] = "open"

\* the calls awaited when a startVoice runs: all belong to earlier recordings
Earlier(awaited) == [j \in 1..Len(awaited) |-> FALSE]

\* startVoice, up to its await of getUserMedia: both buttons are toggled, so
\* it runs only while not recording.  The new socket is stored in sttSocket;
\* one made before and still live stays as it is, and so do the voice*
\* variables, which then hold the objects of an earlier recording.
startVoice ==
  /\ ~pageIsRecording
  /\ sttSocket \in Live => Len(pageStrays) < MaxStrays
  /\ Len(pageMics) < MaxPending
  /\ Len(pageStops) < MaxPending
  /\ pageStrays' = IF sttSocket \in Live THEN Append(pageStrays, sttSocket) ELSE pageStrays
  /\ liveTranscript' = <<>>
  /\ pageIsRecording' = TRUE
  /\ sttSocket' = "connecting"
  /\ sttSocketSet' = TRUE
  /\ voiceAudioCtx' = IF voiceAudioCtx = "none" THEN "none" ELSE "earlier"
  /\ pageMics' = Append(Earlier(pageMics), TRUE)
  /\ pageStops' = Earlier(pageStops)
  /\ UNCHANGED <<srvVars, otherVars, clientVars, gwVars, epVars, sttVars, chatInput, pageEvent, pageFrames>>

\* getUserMedia j settles: when granted, startVoice goes on to its end and
\* stores the stream, a new context and its nodes, whether or not the
\* recording was stopped meanwhile; when refused, startVoice ends there
MicSettled(j, granted) ==
  /\ pageMics' = RemoveAt(pageMics, j)
  /\ voiceAudioCtx' = IF ~granted THEN voiceAudioCtx
                      ELSE IF pageMics[j] THEN "current" ELSE "earlier"
  /\ UNCHANGED <<srvVars, otherVars, clientVars, gwVars, epVars, sttVars, chatInput, liveTranscript,
                 pageIsRecording, sttSocket, sttSocketSet, pageEvent, pageStrays, pageFrames,
                 pageStops>>

\* sttSocket.onopen
PageSocketOpened ==
  /\ sttSocket = "connecting"
  /\ sttSocket' = "open"
  /\ UNCHANGED <<srvVars, otherVars, clientVars, gwVars, epVars, sttVars, voiceVars, chatInput, liveTranscript,
                 pageIsRecording, sttSocketSet, pageEvent, pageStrays, pageFrames>>

\* onopen of a socket made by an earlier startVoice
PageStrayOpened(i) ==
  /\ pageStrays[i] = "connecting"
  /\ pageStrays' = [pageStrays EXCEPT ![i] = "open"]
  /\ UNCHANGED <<srvVars, otherVars, clientVars, gwVars, epVars, sttVars, voiceVars, chatInput, liveTranscript,
                 pageIsRecording, sttSocket, sttSocketSet, pageEvent, pageFrames>>

\* voiceProcessorNode.onaudioprocess: a frame is sent while recording, on
\* the socket sttSocket refers to, when it is open
PageSendFrame ==
  /\ pageIsRecording
  /\ sttSocketSet /\ sttSocket = "open"
  /\ pageFrames < MaxFrames
  /\ pageFrames' = pageFrames + 1
  /\ UNCHANGED <<srvVars, otherVars, clientVars, gwVars, epVars, sttVars, voiceVars, chatInput, liveTranscript,
                 pageIsRecording, sttSocket, sttSocketSet, pageEvent, pageStrays>>

\* sttSocket.onmessage with a partial_transcript
PagePartial(text) ==
  /\ SomePageSocketOpen
  /\ liveTranscript' = text
  /\ pageEvent' = SttEventOf("partial", text, 1 - pageEvent.n)
  /\ UNCHANGED <<srvVars, otherVars, clientVars, gwVars, epVars, sttVars, voiceVars, chatInput,
                 pageIsRecording, sttSocket, sttSocketSet, pageStrays, pageFrames>>

\* the chat input after a committed transcript with a non-blank text
PageCommit(prev, text) == text

\* sttSocket.onmessage with a committed_transcript
PageCommitted(text) ==
  /\ SomePageSocketOpen
  /\ chatInput' = IF Trim(text) # <<>> THEN PageCommit(chatInput, text) ELSE chatInput
  /\ pageEvent' = SttEventOf("committed", text, 1 - pageEvent.n)
  /\ UNCHANGED <<srvVars, otherVars, clientVars, gwVars, epVars, sttVars, voiceVars, liveTranscript,
                 pageIsRecording, sttSocket, sttSocketSet, pageStrays, pageFrames>>

\* sttSocket.onmessage with a server_error: it is logged
PageServerError ==
  /\ SomePageSocketOpen
  /\ pageEvent' = SttEventOf("error", <<>>, 1 - pageEvent.n)
  /\ UNCHANGED <<srvVars, otherVars, clientVars, gwVars, epVars, sttVars, voiceVars, chatInput, liveTranscript,
                 pageIsRecording, sttSocket, sttSocketSet, pageStrays, pageFrames>>

\* the bridge closes the socket
PageSocketClosed ==
  /\ sttSocket = "open"
  /\ sttSocket' = "closed"
  /\ UNCHANGED <<srvVars, otherVars, clientVars, gwVars, epVars, sttVars, voiceVars, chatInput, liveTranscript,
                 pageIsRecording, sttSocketSet, pageEvent, pageStrays, pageFrames>>

\* the same for a socket made by an earlier startVoice
PageStrayClosed(i) ==
  /\ pageStrays[i] = "open"
  /\ pageStrays' = RemoveAt(pageStrays, i)
  /\ UNCHANGED <<srvVars, otherVars, clientVars, gwVars, epVars, sttVars, voiceVars, chatInput, liveTranscript,
                 pageIsRecording, sttSocket, sttSocketSet, pageEvent, pageFrames>>

\* the socket after stopVoice: close is called when readyState is 1
ClosedByStop(set, state) == IF set /\ state = "open" THEN "closed" ELSE state

\* stopVoice up to its await: with an audio context to close it waits for
\* close() and has touched neither the socket nor the variables yet;
\* without one it runs to its end, where an open socket is closed and one
\* that is still connecting is only forgotten
stopVoice ==
  /\ pageIsRecording
  /\ pageIsRecording' = FALSE
  /\ IF voiceAudioCtx # "none"
     THEN /\ pageStops' = Append(pageStops, TRUE)
          /\ UNCHANGED <<sttSocket, sttSocketSet>>
     ELSE /\ sttSocket' = ClosedByStop(sttSocketSet, sttSocket)
          /\ sttSocketSet' = FALSE
          /\ UNCHANGED pageStops
  /\ UNCHANGED <<srvVars, otherVars, clientVars, gwVars, epVars, sttVars, chatInput, liveTranscript,
                 pageEvent, pageStrays, pageFrames, voiceAudioCtx, pageMics>>

\* close() resolved for stopVoice j: the socket sttSocket refers to now is
\* closed when open, and finally clears the five variables
StopSettled(j) ==
  /\ pageStops' = RemoveAt(pageStops, j)
  /\ sttSocket' = ClosedByStop(sttSocketSet, sttSocket)
  /\ sttSocketSet' = FALSE
  /\ voiceAudioCtx' = "none"
  /\ UNCHANGED <<srvVars, otherVars, clientVars, gwVars, epVars, sttVars, chatInput, liveTranscript,
                 pageIsRecording, pageEvent, pageStrays, pageFrames, pageMics>>

\* the user edits the chat input
PageEdit(edit) ==
  /\ Edited(chatInput, edit) # chatInput
  /\ Len(Edited(chatInput, edit)) <= MaxAnswer
  /\ chatInput' = Edited(chatInput, edit)
  /\ UNCHANGED <<srvVars, otherVars, clientVars, gwVars, epVars, sttVars, voiceVars, liveTranscript,
                 pageIsRecording, sttSocket, sttSocketSet, pageEvent, pageStrays, pageFrames>>

\* sendMessage up to its fetch, once a resume was uploaded
sendMessage ==
  /\ Trim(chatInput) # <<>>
  /\ chatInput' = <<>>
  /\ UNCHANGED <<srvVars, otherVars, clientVars, gwVars, epVars, sttVars, voiceVars, liveTranscript,
                 pageIsRecording, sttSocket, sttSocketSet, pageEvent, pageStrays, pageFrames>>

NextPage ==
  \/ startVoice
  \/ PageSocketOpened
  \/ \E i \in 1..Len(pageStrays) : PageStrayOpened(i)
  \/ PageSendFrame
  \/ \E text \in PartialTexts : PagePartial(text)
  \/ \E text \in PageCommittedTexts : PageCommitted(text)
  \/ PageServerError
  \/ PageSocketClosed
  \/ \E i \in 1..Len(pageStrays) : PageStrayClosed(i)
  \/ stopVoice
  \/ \E j \in 1..Len(pageMics) : \E granted \in BOOLEAN : MicSettled(j, granted)
  \/ \E j \in 1..Len(pageStops) : StopSettled(j)
  \/ \E edit \in Edits : PageEdit(edit)
  \/ sendMessage

SpecPage == Init /\ [][NextPage]_vars

\* ------------------------------------------------------------------------
\* Audio Transcription Bridge
\* ------------------------------------------------------------------------

\* a frame of the client arrives
BridgeReceiveFrame(f) ==
  /\ brState = "relaying"
  /\ Len(brReceived) < MaxRelay
  /\ brReceived' = Append(brReceived, f)
  /\ UNCHANGED <<mainVars, cqbVars,
                 brState, brForwarded, brProviderEvents, brSentEvents>>

\* the bridge forwards a frame to the provider
BridgeForwardFrame ==
  /\ brState = "relaying"
  /\ Len(brForwarded) < Len(brReceived)
  /\ brForwarded' = RelayNext(brReceived, brForwarded)
  /\ UNCHANGED <<mainVars, cqbVars,
                 brState, brReceived, brProviderEvents, brSentEvents>>

\* an event of the provider arrives
BridgeProviderEvent(e) ==
  /\ brState = "relaying"
  /\ Len(brProviderEvents) < MaxRelay
  /\ brProviderEvents' = Append(brProviderEvents, e)
  /\ UNCHANGED <<mainVars, cqbVars,
                 brState, brReceived, brForwarded, brSentEvents>>

\* the bridge sends an event to the client
BridgeSendEvent ==
  /\ brState = "relaying"
  /\ Len(brSentEvents) < Len(brProviderEvents)
  /\ brSentEvents' = RelayNext(brProviderEvents, brSentEvents)
  /\ UNCHANGED <<mainVars, cqbVars,
                 brState, brReceived, brForwarded, brProviderEvents>>

\* either side closes its channel: the relay ends, what was not passed on
\* is dropped
BridgeClose ==
  /\ brState = "relaying"
  /\ brState' = "closed"
  /\ UNCHANGED <<mainVars, cqbVars,
                 brReceived, brForwarded, brProviderEvents, brSentEvents>>

NextBridge ==
  \/ \E f \in Frames : BridgeReceiveFrame(f)
  \/ BridgeForwardFrame
  \/ \E e \in ProviderEvents : BridgeProviderEvent(e)
  \/ BridgeSendEvent
  \/ BridgeClose

SpecBridge == Init /\ [][NextBridge]_vars

\* ------------------------------------------------------------------------
\* CodeQuestionBot.  Autosave to localStorage is left out: it only changes
\* which texts the answers hold.
\* ------------------------------------------------------------------------

\* repo URL input onChange
CqbTypeUrl(u) ==
  /\ stage = "submit"
  /\ u # repoUrl
  /\ repoUrl' = u
  /\ error' = FALSE
  /\ cqbEvent' = CqbEvent("input", u)
  /\ UNCHANGED <<mainVars, bridgeVars, pollVars, stage, submission, submitPhase, answers, invalidAnswers,
                 isSubmittingAnswers, submitError, isLoadingGrades, cqbCalls, cqbCreated>>

\* handleSubmit up to its first await; the button is disabled while
\* submitPhase is not idle
handleSubmit ==
  /\ stage = "submit" /\ submitPhase = "idle"
  /\ IF ~isValidRepoUrl(repoUrl)
     THEN /\ error' = TRUE
          /\ cqbEvent' = CqbEvent("invalidUrl", repoUrl)
          /\ UNCHANGED <<submitPhase, cqbCalls>>
     ELSE /\ error' = FALSE
          /\ submitPhase' = "verifying"
          /\ cqbCalls' = Append(cqbCalls, CqbCall("verify", repoUrl, NoSubmission))
          /\ cqbEvent' = CqbEvent("verifyIssued", repoUrl)
  /\ UNCHANGED <<mainVars, bridgeVars, pollVars, repoUrl, stage, submission, answers, invalidAnswers,
                 isSubmittingAnswers, submitError, isLoadingGrades, cqbCreated>>

\* verifyRepo settles: createSubmission is called, or the catch and finally
\* blocks run
VerifySettled(i, ok) ==
  /\ cqbCalls[i].op = "verify"
  /\ IF ok
     THEN /\ submitPhase' = "generating"
          /\ cqbCalls' = [cqbCalls EXCEPT ![i].op = "create"]
          /\ cqbEvent' = CqbEvent("createIssued", cqbCalls[i].url)
          /\ UNCHANGED error
     ELSE /\ error' = TRUE
          /\ submitPhase' = "idle"
          /\ cqbCalls' = RemoveAt(cqbCalls, i)
          /\ cqbEvent' = CqbEvent("verifyFailed", cqbCalls[i].url)
  /\ UNCHANGED <<mainVars, bridgeVars, pollVars, repoUrl, stage, submission, answers, invalidAnswers,
                 isSubmittingAnswers, submitError, isLoadingGrades, cqbCreated>>

\* createSubmission settles, with the questions of the new submission or
\* with an error
CreateSettled(i, ok, qs) ==
  /\ cqbCalls[i].op = "create"
  /\ cqbCalls' = RemoveAt(cqbCalls, i)
  /\ submitPhase' = "idle"
  /\ IF ok
     THEN /\ cqbCreated < MaxSubmissions
          /\ cqbCreated' = cqbCreated + 1
          /\ submission' = Submission(cqbCreated + 1, qs)
          /\ stage' = "questions"
          /\ answers' = NoAnswers
          /\ invalidAnswers' = {}
          /\ cqbEvent' = CqbEvent("created", cqbCalls[i].url)
          /\ UNCHANGED error
     ELSE /\ error' = TRUE
          /\ cqbEvent' = CqbEvent("createFailed", cqbCalls[i].url)
          /\ UNCHANGED <<cqbCreated, submission, stage, answers, invalidAnswers>>
  /\ UNCHANGED <<mainVars, bridgeVars, pollVars, repoUrl, isSubmittingAnswers, submitError, isLoadingGrades>>

\* handleAnswerChange
handleAnswerChange(q, t) ==
  /\ stage = "questions" /\ submission.id # 0
  /\ q \in submission.questions
  /\ t # answers[q]
  /\ answers' = [answers EXCEPT ![q] = t]
  /\ invalidAnswers' = invalidAnswers \ {q}
  /\ cqbEvent' = CqbEvent("input", repoUrl)
  /\ UNCHANGED <<mainVars, bridgeVars, pollVars, repoUrl, stage, submission, error, submitPhase,
                 isSubmittingAnswers, submitError, isLoadingGrades, cqbCalls, cqbCreated>>

\* handleSubmitAnswers up to its await; the button is disabled while
\* isSubmittingAnswers
handleSubmitAnswers ==
  /\ stage = "questions" /\ submission.id # 0
  /\ ~isSubmittingAnswers
  /\ IF emptyIds(submission, answers) # {}
     THEN /\ invalidAnswers' = emptyIds(submission, answers)
          /\ submitError' = TRUE
          /\ cqbEvent' = CqbEvent("answersBlocked", repoUrl)
          /\ UNCHANGED <<isSubmittingAnswers, cqbCalls>>
     ELSE /\ submitError' = FALSE
          /\ isSubmittingAnswers' = TRUE
          /\ cqbCalls' = Append(cqbCalls, CqbCall("answers", repoUrl, submission))
          /\ cqbEvent' = CqbEvent("answersIssued", repoUrl)
          /\ UNCHANGED invalidAnswers
  /\ UNCHANGED <<mainVars, bridgeVars, pollVars, repoUrl, stage, submission, error, submitPhase, answers,
                 isLoadingGrades, cqbCreated>>

\* submitAnswers settles; on success the poll is started with
\* setTimeout(poll, 3000)
AnswersSettled(i, ok) ==
  /\ cqbCalls[i].op = "answers"
  /\ cqbCalls' = RemoveAt(cqbCalls, i)
  /\ isSubmittingAnswers' = FALSE
  /\ IF ok
     THEN /\ stage' = "submitted"
          /\ isLoadingGrades' = TRUE
          /\ polls' = Append(polls, Poll(cqbCalls[i].sub, 0, "timer"))
          /\ cqbEvent' = CqbEvent("answersAccepted", cqbCalls[i].url)
          /\ UNCHANGED submitError
     ELSE /\ submitError' = TRUE
          /\ cqbEvent' = CqbEvent("answersFailed", cqbCalls[i].url)
          /\ UNCHANGED <<stage, isLoadingGrades, polls>>
  /\ UNCHANGED <<mainVars, bridgeVars, grades, repoUrl, submission, error, submitPhase, answers,
                 invalidAnswers, cqbCreated>>

\* the state updates of handleReset
ResetState ==
  /\ repoUrl' = <<>>
  /\ submission' = NoSubmission
  /\ stage' = "submit"
  /\ error' = FALSE
  /\ answers' = NoAnswers
  /\ submitError' = FALSE
  /\ submitPhase' = "idle"
  /\ invalidAnswers' = {}
  /\ grades' = NoGrades
  /\ isLoadingGrades' = FALSE

\* handleReset: Start over, Submit another repo
handleReset ==
  /\ stage \in {"questions", "submitted"}
  /\ ResetState
  /\ cqbEvent' = CqbEvent("reset", <<>>)
  /\ UNCHANGED <<mainVars, bridgeVars, isSubmittingAnswers, cqbCalls, cqbCreated, polls>>

\* Sign out: handleLogout up to its await
handleLogout ==
  /\ \A i \in 1..Len(cqbCalls) : cqbCalls[i].op # "logout"
  /\ cqbCalls' = Append(cqbCalls, CqbCall("logout", <<>>, NoSubmission))
  /\ cqbEvent' = CqbEvent("logoutIssued", <<>>)
  /\ UNCHANGED <<mainVars, bridgeVars, pollVars, repoUrl, stage, submission, error, submitPhase,
                 answers, invalidAnswers, isSubmittingAnswers, submitError, isLoadingGrades,
                 cqbCreated>>

\* logout settles: the finally block of handleLogout calls handleReset
LogoutSettled(i) ==
  /\ cqbCalls[i].op = "logout"
  /\ cqbCalls' = RemoveAt(cqbCalls, i)
  /\ ResetState
  /\ cqbEvent' = CqbEvent("reset", <<>>)
  /\ UNCHANGED <<mainVars, bridgeVars, isSubmittingAnswers, cqbCreated, polls>>

\* the timer of poll j fires: poll() up to its getGrades call, or its end
\* when the attempts are used up
PollTimer(j) ==
  /\ polls[j].phase = "timer"
  /\ IF polls[j].attempts >= maxAttempts
     THEN /\ isLoadingGrades' = FALSE
          /\ polls' = RemoveAt(polls, j)
          /\ cqbEvent' = PollEvent("pollGaveUp", FALSE, 0)
     ELSE /\ polls' = [polls EXCEPT ![j].attempts = @ + 1, ![j].phase = "request"]
          /\ cqbEvent' = PollEvent("pollIssued", FALSE, 0)
          /\ UNCHANGED isLoadingGrades
  /\ UNCHANGED <<mainVars, bridgeVars, grades, repoUrl, stage, submission, error, submitPhase,
                 answers, invalidAnswers, isSubmittingAnswers, submitError, cqbCalls,
                 cqbCreated>>

\* getGrades of poll j settles: with a list of n grades, or rejected
PollSettled(j, ok, n) ==
  /\ polls[j].phase = "request"
  /\ IF ok /\ gradesComplete(n, polls[j].sub)
     THEN /\ grades' = Grades(polls[j].sub.id, n)
          /\ isLoadingGrades' = FALSE
          /\ polls' = RemoveAt(polls, j)
          /\ cqbEvent' = PollEvent("pollDone", ok, n)
     ELSE /\ polls' = [polls EXCEPT ![j].phase = "timer"]
          /\ cqbEvent' = PollEvent("pollRetry", ok, n)
          /\ UNCHANGED <<grades, isLoadingGrades>>
  /\ UNCHANGED <<mainVars, bridgeVars, repoUrl, stage, submission, error, submitPhase,
                 answers, invalidAnswers, isSubmittingAnswers, submitError, cqbCalls,
                 cqbCreated>>

NextCqb ==
  \/ \E u \in RepoUrls : CqbTypeUrl(u)
  \/ handleSubmit
  \/ \E i \in 1..Len(cqbCalls) : \E ok \in BOOLEAN : VerifySettled(i, ok)
  \/ \E i \in 1..Len(cqbCalls) : \E qs \in QuestionSets : CreateSettled(i, TRUE, qs)
  \/ \E i \in 1..Len(cqbCalls) : CreateSettled(i, FALSE, {})
  \/ \E q \in AllQuestions : \E t \in AnswerTexts : handleAnswerChange(q, t)
  \/ handleSubmitAnswers
  \/ \E i \in 1..Len(cqbCalls) : \E ok \in BOOLEAN : AnswersSettled(i, ok)
  \/ handleReset

SpecCqb == Init /\ [][NextCqb]_vars

\* one submission from the repo URL to its grades, with every outcome of
\* every poll
NextPoll ==
  \/ CqbTypeUrl(<<"H", "u", "/", "r">>)
  \/ handleSubmit
  \/ \E i \in 1..Len(cqbCalls) : VerifySettled(i, TRUE)
  \/ \E i \in 1..Len(cqbCalls) : \E qs \in QuestionSets : CreateSettled(i, TRUE, qs)
  \/ \E q \in AllQuestions : handleAnswerChange(q, <<"a">>)
  \/ handleSubmitAnswers
  \/ \E i \in 1..Len(cqbCalls) : \E ok \in BOOLEAN : AnswersSettled(i, ok)
  \/ \E j \in 1..Len(polls) : PollTimer(j)
  \/ \E j \in 1..Len(polls) : \E ok \in BOOLEAN : \E n \in GradeCounts : PollSettled(j, ok, n)

\* timers fire and requests settle
PollFairness ==
  /\ WF_vars(\E j \in 1..Len(polls) : PollTimer(j))
  /\ WF_vars(\E j \in 1..Len(polls) : \E ok \in BOOLEAN : \E n \in GradeCounts :
               PollSettled(j, ok, n))

SpecPoll == Init /\ [][NextPoll]_vars /\ PollFairness

\* submissions of one question whose answers are accepted, with Start over,
\* Submit another repo and Sign out while a submission is on screen, and
\* polls that fail or return the grade, followed over the first MaxTicks
\* ticks of each poll
NextPollReset ==
  \/ CqbTypeUrl(<<"H", "u", "/", "r">>)
  \/ handleSubmit
  \/ \E i \in 1..Len(cqbCalls) : VerifySettled(i, TRUE)
  \/ \E i \in 1..Len(cqbCalls) : CreateSettled(i, TRUE, {"q1"})
  \/ handleAnswerChange("q1", <<"a">>)
  \/ handleSubmitAnswers
  \/ \E i \in 1..Len(cqbCalls) : AnswersSettled(i, TRUE)
  \/ \E j \in 1..Len(polls) : polls[j].attempts < MaxTicks /\ PollTimer(j)
  \/ \E j \in 1..Len(polls) : \E ok \in BOOLEAN : PollSettled(j, ok, 1)
  \/ handleReset
  \/ stage # "submit" /\ handleLogout
  \/ \E i \in 1..Len(cqbCalls) : LogoutSettled(i)

SpecPollReset == Init /\ [][NextPollReset]_vars





\* ------------------------------------------------------------------------
\* Properties of the handler
\* ------------------------------------------------------------------------

Responded == srvPc = "sent"

UserCount == Cardinality({i \in 1..Len(srvReq.messages) : srvReq.messages[i].role = "user"})

\* C1: a 200 response of POST /api/interview/next carries exactly one of
\* nextQuestion and done, never both and never neither.
C1_ExactlyOneOfNextOrDone ==
  (Responded /\ srvRes.status = 200) => (srvRes.done # Truthy(srvRes.nextQuestion))

\* Step A did not produce scores: exception, no text, invalid JSON, a JSON
\* value of the wrong shape
StepAFailed ==
  \/ scoreReply.kind \in {"throw", "notext", "badjson", "nonobj"}
  \/ scoreReply.kind = "obj" /\ ~scoreReply.isArray
  \/ /\ scoreReply.kind = "obj"
     /\ ~IsNumber(scoreReply.answersAverage)
     /\ HasNullElem(scoreReply.perQuestionScores)

\* Step B did not produce an evaluation
StepBFailed ==
  \/ evalReply.kind \in {"throw", "notext", "badjson", "nonobj"}
  \/ /\ evalReply.kind = "obj"
     /\ ~IsNumber(evalReply.overallScore)
     /\ ~Truthy(evalReply.overallFeedback)
     /\ ~Truthy(evalReply.closingMessage)

WellFormedScoring(reply) ==
  /\ reply.kind = "obj"
  /\ reply.isArray
  /\ \A i \in 1..Len(reply.perQuestionScores) : reply.perQuestionScores[i] \in 0..10
  /\ reply.answersAverage \in 0..(10 * AvgDen)

\* C3: for a well-formed scoring response answersAvgPct is an integer in
\* 0..100, the nearest one to answersAverage * 10 (halves up), and with a
\* numeric fitScore in 0..100 Step A sets overallScore to the integer in
\* 0..100 nearest to 0.4 * fitScore + 0.6 * answersAvgPct (halves up).
C3_BlendedScore ==
  (Responded /\ WellFormedScoring(scoreReply))
    => /\ answersAvgPct \in 0..100
       /\ 2 * AvgDen * answersAvgPct <= 20 * scoreReply.answersAverage + AvgDen
       /\ 20 * scoreReply.answersAverage + AvgDen < 2 * AvgDen * (answersAvgPct + 1)
       /\ (srvReq.fitScore \in 0..100
             => /\ outA.overallScore \in 0..100
                /\ 20 * outA.overallScore <= 8 * srvReq.fitScore + 12 * answersAvgPct + 10
                /\ 8 * srvReq.fitScore + 12 * answersAvgPct + 10 < 20 * (outA.overallScore + 1))

C3_Witness ==
  /\ Responded
  /\ WellFormedScoring(scoreReply)
  /\ srvReq.fitScore = 33
  /\ scoreReply.answersAverage = 7 * AvgDen + 1
  /\ answersAvgPct \in 70..79
  /\ outA.overallScore \in 55..61

\* the scenario of C4: five answers, {done, closingMessage "Thanks"},
\* scores 8, 6, 7, 9, 5 (average 7.0), fitScore 80
C4_Scenario ==
  /\ Responded
  /\ UserCount = 5
  /\ srvReq.fitScore = 80
  /\ nqReply = NqObj(TRUE, Thanks, <<>>, NoNum, <<>>)
  /\ scoreReply.kind = "obj" /\ scoreReply.isArray
  /\ scoreReply.perQuestionScores = <<8, 6, 7, 9, 5>>
  /\ scoreReply.answersAverage \in {NoNum, 7 * AvgDen}

\* C4 as stated: the payload has closingMessage "Thanks" and overallScore 74
\* whatever the evaluation step returns.
C4_Original ==
  C4_Scenario
    => srvRes.status = 200 /\ srvRes.closingMessage = Thanks /\ srvRes.overallScore = 74

\* C4 amended: in that scenario the payload has overallScore 74 and
\* closingMessage "Thanks" unless the evaluation reply carries a numeric
\* overallScore, respectively a non-empty closingMessage, which replaces it.
C4_Amended ==
  C4_Scenario
    => /\ srvRes.status = 200
       /\ srvRes.closingMessage =
            (IF Truthy(evalReply.closingMessage) THEN evalReply.closingMessage ELSE Thanks)
       /\ srvRes.overallScore =
            (IF IsNumber(evalReply.overallScore) THEN evalReply.overallScore ELSE 74)

C4_Witness ==
  /\ C4_Scenario
  /\ evalReply.kind = "throw"
  /\ srvRes.closingMessage = Thanks
  /\ srvRes.overallScore = 74

\* C9 as stated: with no user message in a done round the scoring call is
\* not made, nothing is divided, and overallScore is the evaluation step's
\* number or absent.
C9_Original ==
  (Responded /\ srvRes.status = 200 /\ srvRes.done /\ UserCount = 0)
    => /\ scoreReply.kind = "notcalled"
       /\ answersAvgPct = NoNum
       /\ \/ srvRes.overallScore = NoNum
          \/ IsNumber(evalReply.overallScore) /\ srvRes.overallScore = evalReply.overallScore

\* C9 amended: with no user message in a done round the scoring call is not
\* made, nothing is divided, and overallScore is the evaluation step's number
\* when it returns one and otherwise what the next-question output itself
\* carried (absent when it carried none).
C9_Amended ==
  (Responded /\ srvRes.status = 200 /\ srvRes.done /\ UserCount = 0)
    => /\ scoreReply.kind = "notcalled"
       /\ answersAvgPct = NoNum
       /\ srvRes.overallScore =
            (IF IsNumber(evalReply.overallScore) THEN evalReply.overallScore
             ELSE nqReply.overallScore)

C9_Witness ==
  /\ Responded
  /\ srvRes.status = 200 /\ srvRes.done
  /\ Len(srvReq.messages) = 1 /\ UserCount = 0
  /\ scoreReply.kind = "notcalled"
  /\ evalReply.overallScore = 50
  /\ srvRes.overallScore = 50

\* ------------------------------------------------------------------------
\* Properties of the interview session driven by the component
\* ------------------------------------------------------------------------

\* C5: after a failed next-question request (network error, non-2xx status,
\* unparsable body) the client's transcript equals the transcript before the
\* answer was submitted; the user's answer of the failed round is not in it.
C5_FailedRoundNotAppended ==
  event.kind = "fail" => messages = event.before

\* requests of the session on screen that are waiting for their response
Outstanding ==
  Cardinality({i \in 1..Len(calls) : calls[i].stage = "fetch" /\ calls[i].current})

C7_CompletedIsAbsorbing ==
  doneSinceStart => event.kind # "send"

\* C8: over the rounds of one session the scoring and evaluation calls are
\* made in at most one request, and never in a round whose response carries
\* nextQuestion.
C8_ScoringAtMostOnce ==
  /\ scoringRequests <= 1
  /\ event.kind \in {"closing", "next", "neither"} => ~(event.scored /\ event.resNext)

\* a transcript of exactly one assistant message and zero answers, in a
\* session started by Start interview
FirstRound ==
  /\ analysis /\ ~analyzing
  /\ Len(messages) = 1 /\ messages[1].role = "assistant"

\* C10: a transcript of one assistant message and no answer is not treated
\* as done: the component is not in the done state and a send gesture with a
\* non-blank answer is accepted, and the server neither rejects the round
\* with 400 nor answers done unless the next-question output said so.
C10_FirstRoundAccepted ==
  /\ FirstRound => ~interviewDone
  /\ (FirstRound /\ event.kind = "sendNoop") => Trim(view.answer) = <<>>
  /\ (event.kind = "fail" /\ Truthy(event.resumeSummary)) => event.status # 400
  /\ event.kind \in {"closing", "next", "neither"} => (event.resDone => event.nqDone)

\* the server side of C10 on its own: with the key configured and a
\* resumeSummary, a messages array of length 1 or more reaches the
\* next-question call, and done in the response comes from its output
ServerAcceptsAnyLength ==
  (Responded /\ hasKey /\ Truthy(srvReq.resumeSummary) /\ srvReq.messagesIsArray
     /\ Len(srvReq.messages) >= 1)
  => /\ srvRes.status \notin {400, 503}
     /\ nqReply.kind # "notcalled"
     /\ (srvRes.status = 200 /\ srvRes.isObj /\ srvRes.done) => nqReply.done

ResetKinds == {"newSession", "analyzeStart", "analyzed", "resume"}

IsPrefix(p, q) == Len(p) <= Len(q) /\ SubSeq(q, 1, Len(p)) = p

\* C12: between the start of a session and the next reset every step leaves
\* messages unchanged or appends exactly one message at the end.
C12_TranscriptAppendOnly ==
  [][event'.kind \notin ResetKinds =>
       \/ messages' = messages
       \/ Len(messages') = Len(messages) + 1 /\ IsPrefix(messages, messages')]_vars

\* a response appended the next question to a transcript of two messages
C12_Witness ==
  /\ event.kind = "next"
  /\ Len(messages) = 3
  /\ messages[2].role = "user"
  /\ messages[3].role = "assistant"

\* ------------------------------------------------------------------------
\* Properties of the Model Gateway
\* ------------------------------------------------------------------------

GatewayCalled == gwPc = "done"

\* no fence marker anywhere in the text
NoFences(t) == \A i \in 1..(Len(t) - 2) : SubSeq(t, i, i + 2) # Fence

\* what stands between the markers of a text that opens with a marker of
\* length n and closes with a fence
FencedBody(t, n) == SubSeq(Trim(t), n + 1, Len(Trim(t)) - 3)

\* the text is one block wrapped in an opening fence with the json tag and a
\* closing fence
IsJsonFenced(t) ==
  /\ Len(Trim(t)) >= 10
  /\ SubSeq(Trim(t), 1, 7) = JsonFence
  /\ EndsWith(Trim(t), Fence)
  /\ NoFences(FencedBody(t, 7))

InnerContent(t) == Trim(FencedBody(t, 7))

\* the text is one JSON document wrapped in bare fences, without a tag
IsBareFenced(t) ==
  /\ Len(Trim(t)) >= 6
  /\ SubSeq(Trim(t), 1, 3) = Fence
  /\ EndsWith(Trim(t), Fence)
  /\ JsonParses(FencedBody(t, 3))

FenceFreeUnchanged == NoFences(gwText) => gwRes.jsonStr = Trim(gwText)

JsonFencedGivesInner == IsJsonFenced(gwText) => gwRes.jsonStr = InnerContent(gwText)

SecondStripChangesNothing == StripFences(gwPath, gwRes.jsonStr) = gwRes.jsonStr

\* C13: the fence stripping step returns text without fences unchanged
\* apart from trimming, returns the inner content of text wrapped in json
\* fences, and applied twice gives the same result as applied once.
C13_Original ==
  GatewayCalled => FenceFreeUnchanged /\ JsonFencedGivesInner /\ SecondStripChangesNothing

\* C13 as it holds: the second application changes nothing for text
\* without fences and for text wrapped in one pair of json fences.
C13_Amended ==
  GatewayCalled =>
    /\ FenceFreeUnchanged
    /\ JsonFencedGivesInner
    /\ (NoFences(gwText) \/ IsJsonFenced(gwText)) => SecondStripChangesNothing

\* a JSON document on its own line between json fences, stripped by
\* getNextQuestion
C13_Witness ==
  /\ GatewayCalled
  /\ gwPath = "next"
  /\ gwText = JsonFence \o <<"\n", "{", "}", "\n">> \o Fence
  /\ gwRes.jsonStr = <<"{", "}">>

\* C14: a JSON document wrapped in fences parses, with the json tag on the
\* opening fence and with a bare opening fence alike.
C14_BareFenceStripped ==
  GatewayCalled =>
    ((IsBareFenced(gwText) \/ (IsJsonFenced(gwText) /\ JsonParses(InnerContent(gwText))))
       => gwRes.kind = "ok")

\* C15: empty or blank provider text fails with the empty-response error of
\* the function, never with the JSON parse exception.
C15_BlankTextIsEmptyResponse ==
  (GatewayCalled /\ Trim(gwText) = <<>>) => gwRes.kind \in {"empty", "noresponse"}

\* a body the handler has to reject: no resumeSummary, messages not an
\* array, or an empty array
InvalidBody ==
  \/ srvReq.resumeSummary = <<>>
  \/ ~srvReq.messagesIsArray
  \/ srvReq.messages = <<>>

NoProviderCall ==
  /\ nqReply.kind = "notcalled"
  /\ scoreReply.kind = "notcalled"
  /\ evalReply.kind = "notcalled"

\* C18: with the credential configured, a request without resumeSummary or
\* without a non-empty messages array is answered 400 with no provider call,
\* and every other request reaches the next-question call.
C18_ValidationBeforeProvider ==
  (Responded /\ hasKey) =>
    /\ InvalidBody => (srvRes.status = 400 /\ NoProviderCall)
    /\ ~InvalidBody => (srvRes.status # 400 /\ nqReply.kind # "notcalled")

\* an empty messages array with a resumeSummary is rejected
C18_Witness ==
  /\ Responded /\ hasKey
  /\ srvReq.resumeSummary = SumText
  /\ srvReq.messagesIsArray
  /\ srvReq.messages = <<>>
  /\ srvRes.status = 400
  /\ NoProviderCall

\* ------------------------------------------------------------------------
\* Properties of the endpoints
\* ------------------------------------------------------------------------

AnalyzeResponded == epPc = "analyze"

TtsResponded == epPc = "tts"

\* C16: every 200 response of POST /api/analyze has a fitScore that is a
\* number in 0..100 and a non-empty firstQuestion; other model outputs are
\* answered with an error.
C16_AnalyzeResponseValidated ==
  (AnalyzeResponded /\ anRes.status = 200) =>
    /\ IsNumber(anRes.fitScore)
    /\ anRes.fitScore >= 0 /\ anRes.fitScore <= 100
    /\ anRes.firstQuestion # <<>>

\* the credential of the feature is absent
GeminiAbsent == ~hasKey

ElevenLabsAbsent == ~ttsEnv.apiKey \/ ~ttsEnv.voiceId

\* C17: without the credential of a feature every request to it is
\* answered 503 and no provider call is made, whatever the request holds.
C17_Original ==
  /\ (Responded /\ GeminiAbsent) => (srvRes.status = 503 /\ nqReply.kind = "notcalled")
  /\ (AnalyzeResponded /\ GeminiAbsent) => (anRes.status = 503 /\ anReply.kind = "notcalled")
  /\ (TtsResponded /\ ElevenLabsAbsent) => (ttsRes = 503 /\ ttsReply = "notcalled")

\* C17 as it holds: no provider call is made; the answer is 503, except
\* that /api/analyze answers 400 to a request without a file and /api/tts
\* answers 400 to a request without text, both tested before the credential.
C17_Amended ==
  /\ (Responded /\ GeminiAbsent) => (srvRes.status = 503 /\ nqReply.kind = "notcalled")
  /\ (AnalyzeResponded /\ GeminiAbsent) =>
       /\ anReply.kind = "notcalled"
       /\ anRes.status = (IF anReq.file THEN 503 ELSE 400)
  /\ (TtsResponded /\ ElevenLabsAbsent) =>
       /\ ttsReply = "notcalled"
       /\ ttsRes = (IF Trim(ttsReq.text) = <<>> THEN 400 ELSE 503)

\* a request with text to /api/tts without a voice id, answered 503
C17_Witness ==
  /\ TtsResponded
  /\ ttsEnv.apiKey /\ ~ttsEnv.voiceId
  /\ ttsReq.text = <<"a">>
  /\ ttsRes = 503
  /\ ttsReply = "notcalled"

\* ------------------------------------------------------------------------
\* Speech to text: properties
\* ------------------------------------------------------------------------

Chars(s) == {s[i] : i \in 1..Len(s)}

\* C19: text that only ever came as a partial transcript (the character p
\* comes in no other way) is never part of the answer state nor of an answer
\* that was submitted
C19_PartialNeverInAnswer ==
  /\ "p" \notin Chars(answer)
  /\ \A i \in 1..Len(messages) : "p" \notin Chars(messages[i].content)

\* the step handles a committed transcript with the text t
StepCommitted(ev, t) == ev'.n # ev.n /\ ev'.kind = "committed" /\ ev'.text = t

\* the step handles some other event of the socket
StepOtherEvent(ev) == ev'.n # ev.n /\ ev'.kind # "committed"

\* the buffer after the step is the buffer before it followed by t
Appended(before, after, t) == IsPrefix(before, after) /\ EndsWith(after, t)

\* the component: a committed text is appended to the answer, any other
\* event leaves the answer alone
ComponentCommittedAppended ==
  [][ /\ \A t \in CommittedTexts \ {<<>>} :
           StepCommitted(sttEvent, t) => Appended(answer, answer', t)
      /\ (StepOtherEvent(sttEvent) \/ StepCommitted(sttEvent, <<>>)) => answer' = answer ]_vars

\* the legacy page: the same for the chat input
PageCommittedAppended ==
  [][ /\ \A t \in PageCommittedTexts \ {<<>>, <<" ">>} :
           StepCommitted(pageEvent, t) => Appended(chatInput, chatInput', t)
      /\ (StepOtherEvent(pageEvent) \/ StepCommitted(pageEvent, <<>>)
            \/ StepCommitted(pageEvent, <<" ">>)) => chatInput' = chatInput ]_vars

\* C20: in both clients a non-empty committed transcript is appended to what
\* the answer buffer held, and no later partial or committed event changes
\* or removes text committed before
C20_CommittedAppendedNeverRevised ==
  ComponentCommittedAppended /\ PageCommittedAppended

\* ------------------------------------------------------------------------
\* Recording: properties
\* ------------------------------------------------------------------------

\* the sockets of the component, and of the legacy page, that are connecting
\* or open
LiveSockets == (IF wsState \in Live THEN 1 ELSE 0) + Len(strays)

LivePageSockets == (IF sttSocket \in Live THEN 1 ELSE 0) + Len(pageStrays)

\* C21: at any moment at most one STT WebSocket made by the client is
\* connecting or open, whatever the sequence of clicks on the record control
C21_AtMostOneSocket == LiveSockets <= 1 /\ LivePageSockets <= 1

\* no recording is active or being started in the component
ComponentStopped == ~isRecording /\ micPending = 0

ComponentStoppedClean ==
  /\ [](ComponentStopped => LiveSockets = 0)
  /\ [][sttFrames' > sttFrames => ~ComponentStopped]_vars

PageStoppedClean ==
  /\ [](~pageIsRecording => LivePageSockets = 0)
  /\ [][pageFrames' > pageFrames => pageIsRecording]_vars

\* C22: once stop has completed, whatever the state of the socket when it
\* was invoked, no socket of the gesture is connecting or open and no frame
\* is sent any more
C22_StopEndsTheRelay == ComponentStoppedClean /\ PageStoppedClean

\* the step handles an error message
StepErrorMessage == sttEvent'.n # sttEvent.n /\ sttEvent'.kind = "error"

\* C23: an error message of the channel only records the error: the
\* recording stays active, every socket stays as it is and the answer is
\* untouched; a committed transcript that arrives after it is still appended
C23_ServerErrorKeepsChannel ==
  [][ /\ StepErrorMessage =>
           /\ analysisError'
           /\ isRecording' = isRecording
           /\ wsState' = wsState /\ strays' = strays
           /\ answer' = answer
      /\ \A t \in CommittedTexts \ {<<>>} :
           (errorSeen /\ StepCommitted(sttEvent, t)) => Appended(answer, answer', t) ]_vars

\* a committed transcript was appended after an error message of the same
\* recording, which is still active on an open socket
C23_Witness ==
  /\ errorSeen /\ analysisError
  /\ sttEvent.kind = "committed" /\ sttEvent.text = CommittedText
  /\ isRecording /\ wsState = "open"
  /\ EndsWith(answer, CommittedText)

\* ------------------------------------------------------------------------
\* Audio Transcription Bridge: properties
\* ------------------------------------------------------------------------

\* C24: at every moment the frames forwarded to the provider are a prefix of
\* the frames received from the client, and the events sent to the client
\* are a prefix of the events of the provider
C24_PureRelay ==
  /\ IsPrefix(brForwarded, brReceived)
  /\ IsPrefix(brSentEvents, brProviderEvents)

\* two different frames were forwarded and a third one was dropped by the
\* close; two different events were sent
C24_Witness ==
  /\ brState = "closed"
  /\ brForwarded = <<"f1", "f2">> /\ Len(brReceived) = 3
  /\ brSentEvents = <<"partial_transcript", "committed_transcript">>

\* ------------------------------------------------------------------------
\* Session save: properties
\* ------------------------------------------------------------------------

\* the calls of the current session that wait for POST /api/session/save
CurrentSaving(cs) == Cardinality({i \in 1..Len(cs) : cs[i].stage = "save" /\ cs[i].current})

\* the step issues POST /api/session/save for the current session
SaveIssued == CurrentSaving(calls') > CurrentSaving(calls)

NonBlank(t) == \E i \in 1..Len(t) : ~IsSpace(t[i])

\* the questions of the submission whose answer is empty
Unanswered == {q \in submission.questions : ~NonBlank(answers[q])}

\* the calls waiting for an operation of the API
CallsOf(cs, op) == {i \in 1..Len(cs) : cs[i].op = op}

\* C26: handleSubmitAnswers sends the batch request only when every question
\* of the submission has a non-blank answer; otherwise no request is sent,
\* the stage stays questions and invalidAnswers is the set of the questions
\* with an empty answer
C26_SubmissionBlockedUntilAnswered ==
  [][ /\ Cardinality(CallsOf(cqbCalls', "answers")) > Cardinality(CallsOf(cqbCalls, "answers"))
           => (cqbEvent'.kind = "answersIssued" /\ Unanswered = {})
      /\ cqbEvent'.kind = "answersIssued" => Unanswered = {}
      /\ cqbEvent'.kind = "answersBlocked" =>
           /\ Unanswered # {}
           /\ cqbCalls' = cqbCalls
           /\ stage' = "questions"
           /\ invalidAnswers' = Unanswered ]_vars

\* a submission was blocked for one answer of white space only
C26_Witness ==
  /\ cqbEvent.kind = "answersBlocked"
  /\ stage = "questions" /\ submission.questions = {"q1", "q2"}
  /\ answers["q1"] = <<"a">> /\ answers["q2"] = <<" ">>
  /\ invalidAnswers = {"q2"} /\ submitError
  /\ CallsOf(cqbCalls, "answers") = {}

\* the repo URLs of the form https://github.com/user/repo
ValidUrls == {<<"H", "u", "/", "r">>, <<"H", "u", "/", "r", "/">>}

\* C27: createSubmission is called only after isValidRepoUrl accepted the
\* URL and verifyRepo succeeded for the same URL; when either fails no
\* submission is created, the stage stays submit, an error is shown and
\* submitPhase is idle
C27_VerifyBeforeSubmission ==
  [][ /\ \A i \in CallsOf(cqbCalls', "create") :
           /\ cqbCalls'[i].url \in ValidUrls
           /\ \E j \in 1..Len(cqbCalls) :
                /\ cqbCalls[j].url = cqbCalls'[i].url
                /\ \/ cqbCalls[j].op = "create"
                   \/ cqbCalls[j].op = "verify" /\ cqbEvent'.kind = "createIssued"
      /\ cqbCreated' > cqbCreated => \E j \in CallsOf(cqbCalls, "create") : cqbCalls[j].url \in ValidUrls
      /\ cqbEvent'.kind = "verifyIssued" => cqbEvent'.url \in ValidUrls
      /\ cqbEvent'.kind \in {"invalidUrl", "verifyFailed"} =>
           /\ CallsOf(cqbCalls', "create") = {}
           /\ cqbCreated' = cqbCreated /\ submission' = submission
           /\ stage' = "submit"
           /\ error'
           /\ submitPhase' = "idle" ]_vars

\* C28: the stage becomes submitted in the step of the submit gesture that
\* passes validation, whatever becomes of the POST /answers request
C28_CompletionIsImmediate ==
  [][ /\ cqbEvent'.kind = "answersIssued" => stage' = "submitted"
      /\ cqbEvent'.kind = "answersFailed" => stage' = "submitted" ]_vars

\* a value that is a number in the arithmetic sense: present and not NaN
Numeric(x) == x # NoNum /\ x # NaNVal

StepBCalled == evalReply.kind # "notcalled"

\* C29: the evaluation step is called exactly when the round is done and,
\* after Step A, overallScore is not numeric or overallFeedback is missing;
\* a numeric overallScore it returns replaces the one Step A left, its
\* overallFeedback and closingMessage replace the earlier ones when they are
\* non-empty, and every other field of the result stays as Step A left it
C29_EvaluationFillsTheResult ==
  (Responded /\ srvRes.status = 200)
    => /\ StepBCalled <=>
            /\ outA.isObj /\ outA.done
            /\ (~Numeric(outA.overallScore) \/ outA.overallFeedback = <<>>)
       /\ evalReply.kind # "obj" => out = outA
       /\ evalReply.kind = "obj" =>
            /\ out.overallScore =
                 IF Numeric(evalReply.overallScore) THEN evalReply.overallScore ELSE outA.overallScore
            /\ out.overallFeedback =
                 IF evalReply.overallFeedback # <<>> THEN evalReply.overallFeedback
                 ELSE outA.overallFeedback
            /\ out.closingMessage =
                 IF evalReply.closingMessage # <<>> THEN evalReply.closingMessage
                 ELSE outA.closingMessage
            /\ out.isObj = outA.isObj /\ out.done = outA.done
            /\ out.nextQuestion = outA.nextQuestion
            /\ out.hasPqs = outA.hasPqs /\ out.perQuestionScores = outA.perQuestionScores

\* the scoring reply is an object with a perQuestionScores array of scores
\* that are in 0..10 or not numbers, and without a numeric answersAverage
AverageDerived ==
  /\ Responded /\ srvRes.status = 200
  /\ scoreReply.kind = "obj" /\ scoreReply.isArray
  /\ scoreReply.answersAverage = NoNum
  /\ \A i \in 1..Len(scoreReply.perQuestionScores) :
       scoreReply.perQuestionScores[i] \in (0..10) \cup {NoNum}

\* the sum of the scores that are numbers
ScoreTotal ==
  LET pqs == scoreReply.perQuestionScores
      at[i \in 0..Len(pqs)] ==
        IF i = 0 THEN 0 ELSE at[i - 1] + (IF pqs[i] = NoNum THEN 0 ELSE pqs[i])
  IN  at[Len(pqs)]

\* C30: without a numeric answersAverage the average is the mean of the
\* per-question scores, a non-numeric score counted as 0, and for every
\* perQuestionScores array, the empty one included, answersAvgPct and the
\* overallScore Step A leaves are integers in 0..100
C30_DerivedAverageInRange ==
  AverageDerived
    => /\ answersAvgPct \in 0..100
       /\ outA.overallScore \in 0..100
       /\ Len(scoreReply.perQuestionScores) > 0 =>
            answersAvgPct = MathRound(10 * ScoreTotal, Len(scoreReply.perQuestionScores))

\* the step appended one message of the role of the message before it
AppendedSameRole ==
  /\ messages # <<>>
  /\ Len(messages') = Len(messages) + 1
  /\ messages'[Len(messages')].role = messages[Len(messages)].role

\* no request of the session on screen is waiting for its response or its save
NoRoundOpen == \A i \in 1..Len(calls) : ~calls[i].current

\* C31: in a session started by Start interview a non-empty transcript
\* begins with an assistant message, and two entries of one role follow each
\* other only where a round failed or went unanswered: the entry added is an
\* answer, sent after the round of the answer before it has ended without an
\* assistant message
C31_RolesAlternate ==
  [][ /\ messages' # <<>> => messages'[1].role = "assistant"
      /\ AppendedSameRole =>
           /\ messages'[Len(messages')].role = "user"
           /\ NoRoundOpen ]_vars

\* the step is the continuation of handleSendAnswer invocation i: after its
\* fetch, or after its save
Continued(i) ==
  /\ event'.kind \in {"closing", "next", "neither", "fail", "saved"}
  /\ \/ calls' = RemoveAt(calls, i)
     \/ /\ calls[i].stage = "fetch"
        /\ Len(calls') = Len(calls) /\ calls'[i].stage = "save"

\* C32: the continuation of a request issued by a session that New Session
\* or Start interview has replaced appends nothing to the transcript on
\* screen and sets neither its interviewDone nor its overallScore nor its
\* overallFeedback
C32_LateResponseIgnored ==
  [][ \A i \in 1..Len(calls) :
        (~calls[i].current /\ Continued(i))
          => /\ messages' = messages
             /\ interviewDone' = interviewDone
             /\ overallScore' = overallScore
             /\ overallFeedback' = overallFeedback ]_vars

\* the step moved invocation i from its fetch to its save request
SaveRequested(i) ==
  /\ event'.kind = "closing"
  /\ calls[i].stage = "fetch"
  /\ Len(calls') = Len(calls) /\ calls'[i].stage = "save"

\* the session Reload Summary has loaded
Reloaded == savedSessions[selectedSessionId]

\* C33: what the client saves on completion is the session on screen, and a
\* saved session with a numeric score that Reload Summary loads is restored
\* as done, with the transcript, score and feedback that were saved
C33_SaveReloadRoundTrip ==
  [][ /\ \A i \in 1..Len(calls) :
           (calls[i].current /\ SaveRequested(i) /\ IsNumber(calls'[i].saved.score))
             => /\ calls'[i].saved.messages = messages'
                /\ calls'[i].saved.score = overallScore'
                /\ calls'[i].saved.feedback = overallFeedback'
      /\ (event'.kind = "resume" /\ IsNumber(Reloaded'.score))
           => /\ interviewDone'
              /\ messages' = Reloaded'.messages
              /\ overallScore' = Reloaded'.score
              /\ overallFeedback' = Reloaded'.feedback ]_vars

\* the step is the continuation of a handleSendAnswer invocation after its
\* exchange with the server has completed
ExchangeCompleted ==
  /\ event'.kind \in {"closing", "next", "neither", "fail"}
  /\ event'.status # 0

\* the step appended an assistant message
AssistantAppended ==
  /\ Len(messages') = Len(messages) + 1
  /\ messages'[Len(messages')].role = "assistant"

\* the step displayed an error
ErrorDisplayed == event'.kind = "fail" /\ analysisError'

\* C34: when the exchange of a request completes, the client appends an
\* assistant message or displays an error, one of the two and not both, also
\* for a 200 response with done and no closingMessage or with neither field;
\* the step that ends the round leaves sending = false
C34_EveryAnswerResolved ==
  [][ /\ ExchangeCompleted => (AssistantAppended # ErrorDisplayed)
      /\ event'.kind \in {"next", "neither", "fail", "saved"} => ~sending' ]_vars

\* C35: no next-question request of the component carries a fitScore, the
\* server makes the blending assignment for none of them, and the score shown
\* after the closing response is the one the server computed without the fit
\* score of the analysis
C35_NoBlendingEndToEnd ==
  (event.kind \in {"closing", "next", "neither", "fail"} /\ event.status # 0)
    => /\ event.fitScore = NoNum
       /\ ~event.blended

\* a closing response after the scoring call: the score on screen is the
\* answers average as a percentage, not blended
C35_Witness ==
  /\ event.kind = "closing" /\ event.scored /\ ~event.blended
  /\ overallScore = 70

\* the step issued the getGrades call of poll j
PollIssued(j) ==
  /\ cqbEvent'.kind = "pollIssued"
  /\ polls[j].phase = "timer"
  /\ Len(polls') = Len(polls) /\ polls'[j].phase = "request"

\* the step is the one in which the getGrades call of poll j settled
PollAnswered(j) ==
  /\ cqbEvent'.kind \in {"pollDone", "pollRetry"}
  /\ polls[j].phase = "request"
  /\ \/ polls' = RemoveAt(polls, j)
     \/ Len(polls') = Len(polls) /\ polls'[j].phase = "timer"

\* C36: a poll calls getGrades at most 60 times, ends with the first list
\* that has as many grades as the submission has questions, and whatever the
\* polls return isLoadingGrades becomes false again
C36_GradePollingTerminates ==
  /\ [][ \A j \in 1..Len(polls) :
           /\ PollIssued(j) => polls'[j].attempts \in 1..60
           /\ (PollAnswered(j) /\ cqbEvent'.ok
                 /\ cqbEvent'.count >= Cardinality(polls[j].sub.questions))
                => /\ polls' = RemoveAt(polls, j)
                   /\ ~isLoadingGrades' ]_vars
  /\ isLoadingGrades ~> ~isLoadingGrades

\* a poll has used all its attempts and given up
C36_Witness ==
  /\ cqbEvent.kind = "pollGaveUp"
  /\ polls = <<>>
  /\ ~isLoadingGrades

\* poll j belongs to a submission that is no longer the one on screen
Stale(j) == polls[j].sub.id # submission.id

\* the step is one of poll j: its timer fired or its getGrades call settled
PollStep(j) ==
  /\ cqbEvent'.kind \in {"pollIssued", "pollGaveUp", "pollDone", "pollRetry"}
  /\ \/ polls' = RemoveAt(polls, j)
     \/ Len(polls') = Len(polls) /\ polls'[j] # polls[j]

\* C37: the grades on screen are those of the submission on screen, and a
\* poll of a submission that handleReset has put away issues no request and
\* changes neither grades nor isLoadingGrades
C37_PollStaysWithItsSubmission ==
  /\ [](grades.sub \in {0, submission.id})
  /\ [][ \A j \in 1..Len(polls) :
           (Stale(j) /\ PollStep(j))
             => /\ cqbEvent'.kind # "pollIssued"
                /\ grades' = grades
                /\ isLoadingGrades' = isLoadingGrades ]_vars

\* stopVoice j goes on after its await although a startVoice ran since
StaleStopSettled(j) ==
  /\ ~pageStops[j]
  /\ pageStops' = RemoveAt(pageStops, j)

\* C38: the continuation of a stopVoice that a startVoice has overtaken
\* neither closes the socket of the new recording nor clears sttSocket or
\* the stream, context and nodes the new recording has stored
C38_StopTearsDownItsOwnRecording ==
  [][ \A j \in 1..Len(pageStops) :
        StaleStopSettled(j)
          => /\ sttSocket' = sttSocket
             /\ sttSocketSet' = sttSocketSet
             /\ voiceAudioCtx = "current" => voiceAudioCtx' = "current" ]_vars

====
